---- MODULE Spec2Model ----
(***************************************************************************)
(* Model of the room-layout generator.                                      *)
(*                                                                          *)
(* Spec      sanitizeLayout of the chat route (api/chat/route.ts), which    *)
(*           the generate route (api/generate/route.ts) repeats line for    *)
(*           line.                                                          *)
(* SpecSnap  snapValue in binary floating point.                            *)
(* SpecPost  the POST handlers of the two routes, two requests at a time.   *)
(* SpecPage  handleSubmit of ChatPanel and the listener of ViewerPanel.     *)
(* SpecViewer     RoomViewer loading the manifest and rendering SceneObjects.*)
(* SpecRetriever  getTopKModels.                                             *)
(*                                                                          *)
(* Numbers.  Lengths are exact fixed-point numbers counted in units of      *)
(* 1/80 m (12.5 mm): 0.1 m is 8 units, 4 m is 320 units.  Sizes and room    *)
(* dimensions are drawn from even numbers of units, so that size / 2 and    *)
(* room / 2 are exact.  The sanitizer specification Spec computes in this   *)
(* exact arithmetic.  The specification SpecSnap computes snapValue in      *)
(* binary floating point instead (see the section "Floating point").        *)
(*                                                                          *)
(* Optional values.  A JSON field that may be missing or null is a          *)
(* sequence of length at most one: << >> is "absent", <<v>> is "present".   *)
(***************************************************************************)
EXTENDS Integers, Sequences, FiniteSets, TLC

VARIABLES
    pc,          \* "idle": no call in progress; "done": sanitizeLayout returned
    layout,      \* the parsed layout handed to sanitizeLayout
    clean,       \* << >> or <<the layout sanitizeLayout returned>>
    snapArgs,    \* << >> or <<[value, step]>>: what snapValue is applied to
    snapResults, \* the results of snapValue applied once, then to its result
    requests,    \* the POST requests the two routes are serving, by request
    env,         \* process.env of the server
    chat,        \* the state of the ChatPanel component
    viewer,      \* the state of the ViewerPanel component
    fetches,     \* the fetch calls of the page that have not settled yet
    roomViewer,  \* the state of the RoomViewer component and its manifest loads
    retrieval    \* << >> or <<a call of getTopKModels and what it returned>>

sanitizerVars == <<pc, layout, clean>>

snapVars == <<snapArgs, snapResults>>

routeVars == <<requests, env>>

panelVars == <<chat, viewer, fetches>>

sceneVars == <<roomViewer>>

retrieverVars == <<retrieval>>

vars ==
    <<pc, layout, clean, snapArgs, snapResults, requests, env, chat, viewer,
      fetches, roomViewer, retrieval>>

----------------------------------------------------------------------------
(* Optional values: value ?? fallback, value == null, truthiness *)

None == << >>

Some(v) == <<v>>

\* value ?? fallback
OrElse(opt, fallback) == IF opt = None THEN fallback ELSE opt[1]

\* JavaScript truthiness of an optional string: absent and "" are falsy
Truthy(opt) == opt # None /\ opt[1] # ""

\* the same of an optional string that is held as a sequence of characters
TruthyText(opt) == opt # None /\ opt[1] # << >>

----------------------------------------------------------------------------
(* Arithmetic of the sanitizer, in units of 1/80 m *)

\* Math.round(numerator / denominator): the nearest integer, a tie going up
\* (towards +infinity), for denominator > 0
MathRound(numerator, denominator) ==
    (2 * numerator + denominator) \div (2 * denominator)

MathMax(a, b) == IF a >= b THEN a ELSE b

MathMin(a, b) == IF a <= b THEN a ELSE b

\* value / 2, exact on the even values sizes and rooms are drawn from
Half(value) == value \div 2

----------------------------------------------------------------------------
(* The options both routes pass to sanitizeLayout *)

\* snap: 0.1 (metres), 8 units
SNAP == 8

roomFallback == [width_m |-> 320, depth_m |-> 280, height_m |-> 216]

SanitizeOptions == [snap |-> SNAP, roomFallback |-> roomFallback]

----------------------------------------------------------------------------
(* sanitizeLayout *)

\* mutant of snapValue: the value is passed on unsnapped
snapValue_NoSnap(options, value) == value

\* const snapValue = (value) => Math.round(value / options.snap) * options.snap
snapValue(options, value) == MathRound(value, options.snap) * options.snap

\* mutant of clampWithinRoom: the centre is clamped, the half size forgotten
clampWithinRoom_CentreOnly(room, value, halfSize, axis) ==
    LET limit == IF axis = "width" THEN Half(room.width_m) ELSE Half(room.depth_m)
    IN  MathMax(-limit, MathMin(limit, value))

\* mutant of clampWithinRoom: the two axes read each other's room dimension
clampWithinRoom_SwappedAxes(room, value, halfSize, axis) ==
    LET limit == IF axis = "width" THEN Half(room.depth_m) ELSE Half(room.width_m)
    IN  MathMax(-limit + halfSize, MathMin(limit - halfSize, value))

\* const clampWithinRoom = (value, halfSize = 0, axis) => ...
clampWithinRoom(room, value, halfSize, axis) ==
    LET limit == IF axis = "width" THEN Half(room.width_m) ELSE Half(room.depth_m)
    IN  MathMax(-limit + halfSize, MathMin(limit - halfSize, value))

EmptySize == [w |-> None, d |-> None, h |-> None]

OriginPosition == [x |-> Some(0), y |-> Some(0), z |-> Some(0)]

\* mutant of restingY: the parent test is dropped
restingY_IgnoresParent(room, object, size, snappedY) ==
    IF size.h = None
    THEN snappedY
    ELSE MathMax(Half(size.h[1]), snappedY)

\* mutant of restingY: the result is clamped under the ceiling
restingY_CeilingClamp(room, object, size, snappedY) ==
    MathMin(room.height_m,
            IF Truthy(object.parent) \/ size.h = None
            THEN snappedY
            ELSE MathMax(Half(size.h[1]), snappedY))

\* y: object.parent || size.h == null ? snappedPosition.y
\*                                      : Math.max(size.h / 2, snappedPosition.y)
\* (the room is in scope there and is not used)
restingY(room, object, size, snappedY) ==
    IF Truthy(object.parent) \/ size.h = None
    THEN snappedY
    ELSE MathMax(Half(size.h[1]), snappedY)

\* the body of the map callback: one object of layout.objects
sanitizeObject(room, options, object) ==
    LET size == OrElse(object.size_m, EmptySize)
        position == OrElse(object.position_m, OriginPosition)
        snappedPosition ==
            [x |-> snapValue(options, OrElse(position.x, 0)),
             y |-> snapValue(options, OrElse(position.y, 0)),
             z |-> snapValue(options, OrElse(position.z, 0))]
        halfWidth == Half(OrElse(size.w, 0))
        halfDepth == Half(OrElse(size.d, 0))
        clampedPosition ==
            [x |-> Some(clampWithinRoom(room, snappedPosition.x, halfWidth, "width")),
             y |-> Some(restingY(room, object, size, snappedPosition.y)),
             z |-> Some(clampWithinRoom(room, snappedPosition.z, halfDepth, "depth"))]
    IN  [object EXCEPT !.position_m = Some(clampedPosition)]

\* mutant of sanitizeLayout: objects without a position are left out
sanitizeLayout_SkipsUnpositioned(lay, options) ==
    LET room == OrElse(lay.room, options.roomFallback)
        objects == SelectSeq(OrElse(lay.objects, << >>),
                             LAMBDA object : object.position_m # None)
        sanitizedObjects ==
            [i \in 1..Len(objects) |-> sanitizeObject(room, options, objects[i])]
    IN  [lay EXCEPT !.room = Some(room), !.objects = Some(sanitizedObjects)]

\* mutant of sanitizeLayout: the fallback room replaces the room handed in
sanitizeLayout_FallbackRoomOnly(lay, options) ==
    LET room == options.roomFallback
        objects == OrElse(lay.objects, << >>)
        sanitizedObjects ==
            [i \in 1..Len(objects) |-> sanitizeObject(room, options, objects[i])]
    IN  [lay EXCEPT !.room = Some(room), !.objects = Some(sanitizedObjects)]

\* function sanitizeLayout(layout, options): LayoutResponse
sanitizeLayout(lay, options) ==
    LET room == OrElse(lay.room, options.roomFallback)
        objects == OrElse(lay.objects, << >>)
        sanitizedObjects ==
            [i \in 1..Len(objects) |-> sanitizeObject(room, options, objects[i])]
    IN  [lay EXCEPT !.room = Some(room), !.objects = Some(sanitizedObjects)]

----------------------------------------------------------------------------
(* The model manifest (public/models.json) and its lookup *)

\* model.indexOf(":"): the 0-based index of the first ":" token, -1 without one
IndexOfColon(model) ==
    IF \E i \in 1..Len(model) : model[i] = ":"
    THEN (CHOOSE i \in 1..Len(model) :
             model[i] = ":" /\ \A j \in 1..(i - 1) : model[j] # ":") - 1
    ELSE -1

\* function extractKey(model): string | undefined
extractKey(model) ==
    IF model = None \/ model[1] = << >> THEN None
    ELSE LET idx == IndexOfColon(model[1])
         IN  IF idx >= 0
             THEN Some(SubSeq(model[1], idx + 2, Len(model[1])))
             ELSE model

\* the directory public paths start with: "/models/"
ModelsDir == <<"/", "m", "o", "d", "e", "l", "s", "/">>

\* a manifest of two models: a desk 0.75 m high, a lamp 1.5 m high
ModelsJson ==
    [key \in {<<"desk">>, <<"lamp">>} |->
        IF key = <<"desk">>
        THEN [path |-> ModelsDir \o <<"d">>, w |-> 96, d |-> 48, h |-> 60]
        ELSE [path |-> ModelsDir \o <<"l">>, w |-> 24, d |-> 24, h |-> 120]]

\* function getModelMeta(models, key): ModelMeta | undefined
getModelMeta(models, key) ==
    LET lookup == extractKey(key)
    IN  IF ~TruthyText(lookup) THEN None
        ELSE IF lookup[1] \in DOMAIN models THEN Some(models[lookup[1]]) ELSE None

\* path.startsWith(prefix)
StartsWith(path, prefix) ==
    /\ Len(path) >= Len(prefix)
    /\ SubSeq(path, 1, Len(prefix)) = prefix

\* function resolveModelPath(models, key): string | undefined
resolveModelPath(models, key) ==
    LET lookup == extractKey(key)
    IN  IF ~TruthyText(lookup) THEN None
        ELSE LET meta == IF lookup[1] \in DOMAIN models
                         THEN Some(models[lookup[1]]) ELSE None
                 path == IF meta = None THEN None ELSE Some(meta[1].path)
             IN  IF TruthyText(path) /\ ~StartsWith(path[1], ModelsDir)
                 THEN None
                 ELSE path

----------------------------------------------------------------------------
(* The layouts the model hands to sanitizeLayout *)

\* the longest object list of a batch
MaxObjects == 3

\* a coordinate far outside every room (10 m)
Far == 800

\* 4 x 3.5 x 2.7 m; 4.05 x 2.5 x 2.7 m (walls off the grid); width 0 (invalid)
Rooms ==
    { [width_m |-> 320, depth_m |-> 280, height_m |-> 216],
      [width_m |-> 324, depth_m |-> 200, height_m |-> 216],
      [width_m |-> 0,   depth_m |-> 280, height_m |-> 216] }

OptRooms == {None} \cup {Some(r) : r \in Rooms}

\* x: far left, halfway below and above 0, just beyond the wall at 162, far right
XValues == {None, Some(-Far), Some(-4), Some(4), Some(163), Some(Far)}

\* y: on the floor, negative and halfway, below every half height, above the
\* ceiling (3 m)
YValues == {None, Some(0), Some(-12), Some(20), Some(240)}

\* z: far behind, centre, halfway and on the clamp bound of a 1 m object in 3.5 m
ZValues == {None, Some(-Far), Some(0), Some(100)}

Positions ==
    {None} \cup {Some([x |-> x, y |-> y, z |-> z]) :
                    x \in XValues, y \in YValues, z \in ZValues}

\* widths: negative, 2.5 cm, 0.75 m (half off the grid), 1 m, 6 m (wider than
\* any room)
WValues == {None, Some(-80), Some(2), Some(60), Some(80), Some(480)}

DValues == {None, Some(80), Some(400)}

HValues == {None, Some(-80), Some(60), Some(80)}

Sizes ==
    {None} \cup {Some([w |-> w, d |-> d, h |-> h]) :
                    w \in WValues, d \in DValues, h \in HValues}

\* parent: missing, empty string, the object itself, an id no object has
Parents == {None, Some(""), Some("a"), Some("ghost")}

\* model references: "gltf:desk", "gltf:lamp", as sequences of tokens
GltfDesk == <<"gltf", ":", "desk">>

GltfLamp == <<"gltf", ":", "lamp">>

Rotation90 == Some([x |-> 0, y |-> 90, z |-> 0])

\* every object of the single-object layouts
SingleObjects ==
    { [id |-> "a", parent |-> p, model |-> Some(GltfDesk),
       position_m |-> pos, rotation_deg |-> Rotation90, size_m |-> s,
       relative_position_m |-> None] :
         p \in Parents, pos \in Positions, s \in Sizes }

\* an offset from a parent: 0.5 m to the right, 0.25 m up
Offset == Some([x |-> Some(40), y |-> Some(20), z |-> Some(0)])

\* the objects batches are made of: a and b name each other as parent, c is a
\* root (in two versions), d hangs on c, e is a root on the very place of the
\* second c
BatchObjects ==
    { [id |-> "a", parent |-> Some("b"), model |-> Some(GltfDesk),
       position_m |-> Some([x |-> Some(Far), y |-> Some(0), z |-> Some(0)]),
       rotation_deg |-> Rotation90,
       size_m |-> Some([w |-> Some(80), d |-> Some(80), h |-> Some(80)]),
       relative_position_m |-> None],
      [id |-> "b", parent |-> Some("a"), model |-> Some(GltfLamp),
       position_m |-> Some([x |-> Some(4), y |-> None, z |-> Some(-Far)]),
       rotation_deg |-> None,
       size_m |-> Some([w |-> Some(60), d |-> Some(80), h |-> Some(60)]),
       relative_position_m |-> None],
      [id |-> "c", parent |-> None, model |-> Some(GltfDesk),
       position_m |-> None, rotation_deg |-> Rotation90, size_m |-> None,
       relative_position_m |-> None],
      [id |-> "c", parent |-> None, model |-> None,
       position_m |-> Some([x |-> Some(4), y |-> Some(100), z |-> Some(100)]),
       rotation_deg |-> Some([x |-> 5, y |-> 45, z |-> 0]),
       size_m |-> Some([w |-> Some(480), d |-> Some(80), h |-> Some(80)]),
       relative_position_m |-> None],
      [id |-> "d", parent |-> Some("c"), model |-> Some(GltfLamp),
       position_m |-> Some([x |-> Some(-4), y |-> Some(-12), z |-> None]),
       rotation_deg |-> None,
       size_m |-> Some([w |-> None, d |-> None, h |-> Some(80)]),
       relative_position_m |-> Offset],
      [id |-> "e", parent |-> None, model |-> Some(GltfLamp),
       position_m |-> Some([x |-> Some(4), y |-> Some(100), z |-> Some(100)]),
       rotation_deg |-> None,
       size_m |-> Some([w |-> Some(80), d |-> Some(80), h |-> Some(80)]),
       relative_position_m |-> None] }

RECURSIVE SeqsUpTo(_, _)
\* the sequences over S of length at most n
SeqsUpTo(S, n) ==
    IF n = 0 THEN {<< >>}
    ELSE LET shorter == SeqsUpTo(S, n - 1)
         IN  shorter \cup {Append(s, e) : s \in {t \in shorter : Len(t) = n - 1}, e \in S}

Rationales == {None, Some("because")}

EmptyLayout == [room |-> None, objects |-> None, rationale |-> None]

----------------------------------------------------------------------------
(* The requests of the two routes: POST /api/chat and POST /api/generate *)

\* a string is the sequence of its characters
RECURSIVE TrimStart(_)
TrimStart(text) ==
    IF text # << >> /\ Head(text) = " " THEN TrimStart(Tail(text)) ELSE text

RECURSIVE TrimEnd(_)
TrimEnd(text) ==
    IF text # << >> /\ text[Len(text)] = " "
    THEN TrimEnd(SubSeq(text, 1, Len(text) - 1))
    ELSE text

\* value.trim()
Trim(text) == TrimEnd(TrimStart(text))

\* mutant of extractDescription: a string is taken untrimmed
extractDescription_Untrimmed(value) ==
    IF value = None \/ "string" \notin DOMAIN value[1] THEN None
    ELSE Some(value[1].string)

\* function extractDescription(value: unknown): string | null
\* a JSON value is [string |-> characters] or [number |-> n]
extractDescription(value) ==
    IF value = None \/ "string" \notin DOMAIN value[1] THEN None
    ELSE LET trimmed == Trim(value[1].string)
         IN  IF Len(trimmed) > 0 THEN Some(trimmed) ELSE None

\* the JSON value null
JsonNull == [null |-> TRUE]

\* the bodies of the POST requests: << >> is a body req.json() rejects; the
\* body is null; the description is missing, a number, blank, or a text with
\* spaces around it
Bodies ==
    { None,
      Some(JsonNull),
      Some([description |-> None]),
      Some([description |-> Some([number |-> 7])]),
      Some([description |-> Some([string |-> <<" ", " ">>])]),
      Some([description |-> Some([string |-> <<" ", "d", "e", "n", " ">>])]) }

\* the text the model returns is a sequence of tokens: prose without braces,
\* a ``` fence, or a JSON document with the value it parses to
Prose == [kind |-> "prose"]

Fence == [kind |-> "fence"]

Json(value) == [kind |-> "json", value |-> value]

\* JSON.parse(text): << >> when it throws, otherwise <<the value>>
JsonParse(text) ==
    IF Len(text) = 1 /\ text[1].kind = "json" THEN Some(text[1].value) ELSE None

\* the indexes of the tokens of one kind
IndexesOf(raw, kind) == {i \in 1..Len(raw) : raw[i].kind = kind}

Min(S) == CHOOSE m \in S : \A n \in S : m <= n

Max(S) == CHOOSE m \in S : \A n \in S : m >= n

\* raw.match(/```(?:json)?\s*([\s\S]*?)\s*```/i)[1]: what stands between the
\* first fence and the next one; << >> without two fences
FencedBlock(raw) ==
    LET fences == IndexesOf(raw, "fence")
    IN  IF Cardinality(fences) < 2 THEN << >>
        ELSE LET open == Min(fences)
                 close == Min(fences \ {open})
             IN  SubSeq(raw, open + 1, close - 1)

\* raw.match(/\{[\s\S]*\}/)[0]: from the first brace to the last one
BraceBlock(raw) ==
    LET documents == IndexesOf(raw, "json")
    IN  IF documents = {} THEN << >>
        ELSE SubSeq(raw, Min(documents), Max(documents))

\* function safeParseLayout(raw: string): LayoutResponse
\* << >> when it throws "Unable to parse layout JSON"; the chat route tries a
\* fenced block before the brace block, the generate route does not
safeParseLayout(route, raw) ==
    LET direct == JsonParse(raw)
        fenced == IF route = "chat" THEN JsonParse(FencedBlock(raw)) ELSE None
        braces == JsonParse(BraceBlock(raw))
    IN  IF direct # None THEN direct
        ELSE IF fenced # None THEN fenced
        ELSE braces

\* the layouts the model's answers hold: a plant handed in far outside the
\* room, a rug without position and size
Plant ==
    [id |-> "plant", parent |-> None, model |-> Some(GltfLamp),
     position_m |-> Some([x |-> Some(Far), y |-> Some(0), z |-> Some(-Far)]),
     rotation_deg |-> None,
     size_m |-> Some([w |-> Some(80), d |-> Some(80), h |-> Some(80)]),
     relative_position_m |-> None]

Rug ==
    [id |-> "rug", parent |-> None, model |-> None, position_m |-> None,
     rotation_deg |-> None, size_m |-> None, relative_position_m |-> None]

Room4 == Some([width_m |-> 320, depth_m |-> 280, height_m |-> 216])

Room405 == Some([width_m |-> 324, depth_m |-> 200, height_m |-> 216])

RoomFlat == Some([width_m |-> 0, depth_m |-> 280, height_m |-> 216])

\* a complete layout; one without room; one with a room of width 0; one with
\* a null among its objects; one without objects; one in another room
Complete == [room |-> Room4, objects |-> Some(<<Plant, Rug>>), rationale |-> None]

Roomless == [room |-> None, objects |-> Some(<<Plant>>), rationale |-> None]

Flat == [room |-> RoomFlat, objects |-> Some(<<Plant>>), rationale |-> None]

WithNull ==
    [room |-> Room4, objects |-> Some(<<Plant, JsonNull, Rug>>), rationale |-> None]

Objectless == [room |-> Room4, objects |-> None, rationale |-> Some("because")]

Elsewhere == [room |-> Room405, objects |-> Some(<<Rug, Plant>>), rationale |-> None]

\* what callGemini resolves with: a bare document, a document after prose, a
\* fenced document, a fenced document followed by a second one, prose only,
\* the document null
RawTexts ==
    { <<Json(Complete)>>,
      <<Prose, Json(Roomless)>>,
      <<Fence, Json(Flat), Fence>>,
      <<Json(WithNull)>>,
      <<Json(Objectless)>>,
      <<Fence, Json(Elsewhere), Fence, Prose, Json(Complete)>>,
      <<Prose>>,
      <<Json(JsonNull)>> }

\* sanitizeLayout throws a TypeError: layout.room is read of null, or
\* object.size_m is read of a null among the objects
ThrowsTypeError(lay) ==
    \/ lay = JsonNull
    \/ /\ lay.objects # None
       /\ \E i \in 1..Len(lay.objects[1]) : lay.objects[1][i] = JsonNull

\* the requests the server is serving at the same time
Requests == {"first", "second"}

Routes == {"chat", "generate"}

\* process.env: the key is not set, is empty, or is set
Envs ==
    { [GOOGLE_GENERATIVE_AI_API_KEY |-> key] : key \in {None, Some(""), Some("key")} }

\* a request slot no POST is using
IdleRequest ==
    [pc |-> "idle", route |-> "chat", body |-> None, description |-> None,
     steps |-> << >>, parsed |-> None, clean |-> None, response |-> None]

\* Response.json({ok: true, data})
Success(data) ==
    [status |-> 200, body |-> [ok |-> TRUE, data |-> Some(data), error |-> None]]

\* Response.json({ok: false, error: message}, {status})
Failure(status, message) ==
    [status |-> status,
     body |-> [ok |-> FALSE, data |-> None, error |-> Some(message)]]

----------------------------------------------------------------------------
(* The page: ChatPanel and ViewerPanel *)

\* the useState initial values of ChatPanel, and the empty useChat messages
InitialChat ==
    [description |-> << >>, isPending |-> FALSE, errorMessage |-> None,
     responseOpen |-> TRUE, lastLayout |-> None, messages |-> << >>]

\* useState<LayoutResponse | undefined>(undefined)
InitialViewer == [layout |-> None]

\* RoomViewer has mounted: no manifest, no error, its load in flight
InitialRoomViewer ==
    [mounted |-> TRUE, models |-> None, error |-> None,
     loads |-> <<[cancelled |-> FALSE]>>]

----------------------------------------------------------------------------
(* The sanitizer as a state machine: a call hands a layout to sanitizeLayout *)

\* everything but process.env: no call, no request, the page just mounted
Mounted ==
    /\ pc = "idle"
    /\ layout = EmptyLayout
    /\ clean = None
    /\ snapArgs = None
    /\ snapResults = << >>
    /\ requests = [r \in Requests |-> IdleRequest]
    /\ chat = InitialChat
    /\ viewer = InitialViewer
    /\ fetches = << >>
    /\ roomViewer = InitialRoomViewer
    /\ retrieval = None

Init ==
    /\ Mounted
    /\ env = [GOOGLE_GENERATIVE_AI_API_KEY |-> Some("key")]

\* sanitizeLayout on a layout of one object
SanitizeSingle ==
    /\ pc = "idle"
    /\ \E room \in OptRooms, object \in SingleObjects :
          layout' = [room |-> room, objects |-> Some(<<object>>), rationale |-> None]
    /\ clean' = Some(sanitizeLayout(layout', SanitizeOptions))
    /\ pc' = "done"
    /\ UNCHANGED <<snapVars, routeVars, panelVars, sceneVars,
                   retrieverVars>>

\* sanitizeLayout on a layout of several objects, or with no objects field
SanitizeBatch ==
    /\ pc = "idle"
    /\ \E room \in OptRooms, rationale \in Rationales,
          objects \in {None} \cup {Some(s) : s \in SeqsUpTo(BatchObjects, MaxObjects)} :
          layout' = [room |-> room, objects |-> objects, rationale |-> rationale]
    /\ clean' = Some(sanitizeLayout(layout', SanitizeOptions))
    /\ pc' = "done"
    /\ UNCHANGED <<snapVars, routeVars, panelVars, sceneVars,
                   retrieverVars>>

\* the call is over: nothing of it is kept
Return ==
    /\ pc = "done"
    /\ pc' = "idle"
    /\ layout' = EmptyLayout
    /\ clean' = None
    /\ UNCHANGED <<snapVars, routeVars, panelVars, sceneVars,
                   retrieverVars>>

Next == SanitizeSingle \/ SanitizeBatch \/ Return

Spec == Init /\ [][Next]_vars

----------------------------------------------------------------------------
(* Floating point.  A JavaScript number is a binary floating-point number  *)
(* with a significand of 53 bits, and every arithmetic operation returns    *)
(* the representable number nearest to the exact result, a tie going to     *)
(* the even significand.  Here the significand has Prec bits, and a number  *)
(* is an integer count of units of 2^-FracBits (the spacing of the smallest *)
(* numbers): n is a number when |n| = m * 2^k with m < 2^Prec.              *)

\* bits of the significand
Prec == 5

\* the unit is 2^-FracBits
FracBits == 2

\* the largest magnitude snapValue is tried on, in units
MaxMagnitude == 512

\* the largest step snapValue is tried with, in units
MaxStep == 64

\* 1.0 in units
One == 2 ^ FracBits

RECURSIVE Binade(_, _, _)
\* the least k with a / (den * 2^k) < 2^Prec, for a >= 0: numbers of that
\* size are 2^k units apart
Binade(a, den, k) ==
    IF a \div (den * 2 ^ k) < 2 ^ Prec THEN k ELSE Binade(a, den, k + 1)

\* num / den rounded to the nearest integer, a tie going to the even one
NearestEven(num, den) ==
    LET q == num \div den
        r == num % den
    IN  IF 2 * r < den THEN q
        ELSE IF 2 * r > den THEN q + 1
        ELSE IF q % 2 = 0 THEN q ELSE q + 1

\* the number nearest to the exact num / den (den > 0)
FlRound(num, den) ==
    LET a == IF num < 0 THEN -num ELSE num
        k == Binade(a, den, 0)
        magnitude == NearestEven(a, den * 2 ^ k) * 2 ^ k
    IN  IF num < 0 THEN -magnitude ELSE magnitude

\* a / b and a * b of two numbers
FlDiv(a, b) == FlRound(a * One, b)

FlMul(a, b) == FlRound(a * b, One)

\* Math.round(a): the nearest integer, a tie going up; exact
FlMathRound(a) == ((2 * a + One) \div (2 * One)) * One

\* mutant of snapValueFl: the grid index is not multiplied back by the step
snapValueFl_NoMultiply(value, snap) == FlMathRound(FlDiv(value, snap))

\* const snapValue = (value) => Math.round(value / options.snap) * options.snap
\* in floating point
snapValueFl(value, snap) == FlMul(FlMathRound(FlDiv(value, snap)), snap)

\* the numbers between -bound and bound
Numbers(bound) == {n \in -bound..bound : FlRound(n, 1) = n}

\* the steps: the numbers s > 0 up to MaxStep
Steps == {n \in Numbers(MaxStep) : n > 0}

\* snapValue(value) with options.snap = step
SnapOnce ==
    /\ snapArgs = None
    /\ \E value \in Numbers(MaxMagnitude), step \in Steps :
          /\ snapArgs' = Some([value |-> value, step |-> step])
          /\ snapResults' = <<snapValueFl(value, step)>>
    /\ UNCHANGED <<sanitizerVars, routeVars, panelVars, sceneVars,
                   retrieverVars>>

\* snapValue applied to its own result
SnapAgain ==
    /\ Len(snapResults) = 1
    /\ snapResults' = Append(snapResults, snapValueFl(snapResults[1], snapArgs[1].step))
    /\ UNCHANGED <<snapArgs, sanitizerVars, routeVars, panelVars, sceneVars,
                   retrieverVars>>

\* both results are dropped
SnapReturn ==
    /\ Len(snapResults) = 2
    /\ snapArgs' = None
    /\ snapResults' = << >>
    /\ UNCHANGED <<sanitizerVars, routeVars, panelVars, sceneVars,
                   retrieverVars>>

NextSnap == SnapOnce \/ SnapAgain \/ SnapReturn

SpecSnap == Init /\ [][NextSnap]_vars

----------------------------------------------------------------------------
(* The two routes as a state machine: POST of api/chat/route.ts and of      *)
(* api/generate/route.ts.  A handler runs from one await to the next         *)
(* without interruption; the handlers of two requests interleave at their    *)
(* awaits.  A request records the steps that have run, in the order they ran. *)

InitPost ==
    /\ Mounted
    /\ env \in Envs

\* the handler returns a response: the steps in ran have run, the last of
\* them returning or throwing
Answered(q, ran, response) ==
    [q EXCEPT !.pc = "responded", !.steps = q.steps \o ran,
              !.response = Some(response)]

\* a POST arrives at one of the routes
Post(r) ==
    /\ requests[r].pc = "idle"
    /\ \E route \in Routes, body \in Bodies :
          requests' = [requests EXCEPT ![r] =
              [IdleRequest EXCEPT !.pc = "req.json", !.route = route,
                                  !.body = body]]
    /\ UNCHANGED <<env, sanitizerVars, snapVars, panelVars, sceneVars,
                   retrieverVars>>

\* await req.json() settles; the description is validated, the chat route
\* looks for the key, and getModels is called
ReadBody(r) ==
    LET q == requests[r]
        description == extractDescription(q.body[1].description)
        keyChecked == IF q.route = "chat" THEN <<"apiKey">> ELSE << >>
    IN  /\ q.pc = "req.json"
        /\ requests' = [requests EXCEPT ![r] =
              IF q.body = None
              THEN Answered(q, <<"req.json">>, Failure(500, "Unexpected token"))
              ELSE IF q.body[1] = JsonNull
              THEN Answered(q, <<"req.json">>,
                            Failure(500, "Cannot read properties of null"))
              ELSE IF description = None
              THEN Answered(q, <<"req.json", "extractDescription">>,
                            Failure(400, "Invalid description"))
              ELSE IF q.route = "chat" /\ ~Truthy(env.GOOGLE_GENERATIVE_AI_API_KEY)
              THEN Answered(q, <<"req.json", "extractDescription", "apiKey">>,
                            Failure(503, "Missing GOOGLE_GENERATIVE_AI_API_KEY"))
              ELSE [q EXCEPT !.pc = "getModels", !.description = description,
                             !.steps = <<"req.json", "extractDescription">>
                                         \o keyChecked \o <<"getModels">>]]
        /\ UNCHANGED <<env, sanitizerVars, snapVars, panelVars, sceneVars,
                       retrieverVars>>

\* await getModels() settles; the candidates are retrieved, the prompt is
\* built, and callGemini is called
ModelsRead(r) ==
    LET q == requests[r]
    IN  /\ q.pc = "getModels"
        /\ \E settled \in {"resolves", "rejects"} :
              requests' = [requests EXCEPT ![r] =
                  IF settled = "rejects"
                  THEN Answered(q, << >>,
                                Failure(500, "Unable to read model metadata from disk"))
                  ELSE [q EXCEPT !.pc = "callGemini",
                                 !.steps = q.steps \o <<"getTopKModels",
                                             "buildSystemPrompt", "callGemini">>]]
        /\ UNCHANGED <<env, sanitizerVars, snapVars, panelVars, sceneVars,
                       retrieverVars>>

\* await callGemini() settles, and safeParseLayout parses what it returned
GeminiReplied(r) ==
    LET q == requests[r]
    IN  /\ q.pc = "callGemini"
        /\ \E settled \in {None} \cup {Some(raw) : raw \in RawTexts} :
              requests' = [requests EXCEPT ![r] =
                  IF settled = None
                  THEN Answered(q, << >>, Failure(500, "Failed to generate layout"))
                  ELSE IF safeParseLayout(q.route, settled[1]) = None
                  THEN Answered(q, <<"safeParseLayout">>,
                                Failure(500, "Unable to parse layout JSON"))
                  ELSE [q EXCEPT !.pc = "sanitizeLayout",
                                 !.steps = q.steps \o <<"safeParseLayout">>,
                                 !.parsed = safeParseLayout(q.route, settled[1])]]
        /\ UNCHANGED <<env, sanitizerVars, snapVars, panelVars, sceneVars,
                       retrieverVars>>

\* the generate route's check: !parsed.room || !Array.isArray(parsed.objects)
Malformed(parsed) == parsed.room = None \/ parsed.objects = None

\* mutant of Sanitized: the parsed layout is returned as it is
Sanitized_NotAtAll(q) ==
    [Answered(q, <<"sanitizeLayout">>, Success(q.parsed[1]))
       EXCEPT !.clean = q.parsed]

\* const clean = sanitizeLayout(parsed, {...}); return Response.json({ok: true, data: clean})
Sanitized(q) ==
    LET cleaned == sanitizeLayout(q.parsed[1], SanitizeOptions)
    IN  [Answered(q, <<"sanitizeLayout">>, Success(cleaned))
           EXCEPT !.clean = Some(cleaned)]

\* the rest of the handler: the generate route's check, sanitizeLayout, the
\* response; a TypeError is caught and answered with status 500
Respond(q) ==
    IF q.route = "generate" /\ q.parsed[1] = JsonNull
    THEN Answered(q, << >>, Failure(500, "Cannot read properties of null"))
    ELSE IF q.route = "generate" /\ Malformed(q.parsed[1])
    THEN Answered(q, << >>, Failure(500, "Malformed layout: missing room/objects"))
    ELSE IF ThrowsTypeError(q.parsed[1])
    THEN Answered(q, <<"sanitizeLayout">>,
                  Failure(500, "Cannot read properties of null"))
    ELSE Sanitized(q)

\* mutant of SanitizeAndRespond: the room is kept between calls, and a call
\* finds the room of the request parsed before it
SanitizeAndRespond_SharedRoom(r) ==
    LET q == requests[r]
        other == CHOOSE o \in Requests : o # r
        kept == requests[other].parsed
        shared == IF kept # None /\ kept[1] # JsonNull /\ q.parsed[1] # JsonNull
                  THEN [q EXCEPT !.parsed = Some([q.parsed[1] EXCEPT !.room = kept[1].room])]
                  ELSE q
    IN  /\ q.pc = "sanitizeLayout"
        /\ requests' = [requests EXCEPT ![r] =
                          [Respond(shared) EXCEPT !.parsed = q.parsed]]
        /\ UNCHANGED <<env, sanitizerVars, snapVars, panelVars, sceneVars,
                       retrieverVars>>

\* the handler runs on from safeParseLayout to its return
SanitizeAndRespond(r) ==
    /\ requests[r].pc = "sanitizeLayout"
    /\ requests' = [requests EXCEPT ![r] = Respond(requests[r])]
    /\ UNCHANGED <<env, sanitizerVars, snapVars, panelVars, sceneVars,
                   retrieverVars>>

\* the response is sent and the request is over
Close(r) ==
    /\ requests[r].pc = "responded"
    /\ requests' = [requests EXCEPT ![r] = IdleRequest]
    /\ UNCHANGED <<env, sanitizerVars, snapVars, panelVars, sceneVars,
                   retrieverVars>>

NextPost ==
    \E r \in Requests :
        \/ Post(r)
        \/ ReadBody(r)
        \/ ModelsRead(r)
        \/ GeminiReplied(r)
        \/ SanitizeAndRespond(r)
        \/ Close(r)

SpecPost == InitPost /\ [][NextPost]_vars

----------------------------------------------------------------------------
(* The page as a state machine: handleSubmit of ChatPanel, in its two parts *)
(* before and after the awaited fetch, and the layout:update listener of    *)
(* ViewerPanel.                                                              *)

\* the most messages a conversation grows to
MaxMessages == 4

\* what the textarea can hold: nothing, a blank, a text with a blank after it
Descriptions == {<< >>, <<" ">>, <<"d", "e", "n", " ">>}

\* how the fetch of /api/generate settles: it rejects, or it resolves with a
\* response whose body is not JSON, or with a response of the route; one
\* response is ok:true without data
Outcomes ==
    { [kind |-> "rejects"], [kind |-> "notJson", status |-> 500] }
    \cup
    { [kind |-> "json", status |-> reply.status, body |-> reply.body] :
        reply \in { Success(sanitizeLayout(Complete, SanitizeOptions)),
                    Success(sanitizeLayout(Elsewhere, SanitizeOptions)),
                    Failure(500, "Malformed layout: missing room/objects"),
                    Failure(500, "Failed to generate layout"),
                    [status |-> 200,
                     body |-> [ok |-> TRUE, data |-> None, error |-> None]] } }

\* a desk without a height, a sofa the manifest does not know, without a
\* position, and a shelf made of primitives, with a height
DeskAtFloor ==
    [id |-> "desk", parent |-> None, model |-> Some(GltfDesk),
     position_m |-> Some([x |-> Some(80), y |-> None, z |-> Some(-40)]),
     rotation_deg |-> None, size_m |-> None, relative_position_m |-> None,
     construction |-> None]

Sofa ==
    [id |-> "sofa", parent |-> None, model |-> Some(<<"sofa">>),
     position_m |-> None,
     rotation_deg |-> None, size_m |-> None, relative_position_m |-> None,
     construction |-> None]

Shelf ==
    [id |-> "shelf", parent |-> None, model |-> None,
     position_m |-> Some([x |-> Some(0), y |-> Some(100), z |-> None]),
     rotation_deg |-> None, size_m |-> None, relative_position_m |-> None,
     construction |-> Some(<<"box">>)]

Furnished ==
    [room |-> Room4, objects |-> Some(<<DeskAtFloor, Sofa, Shelf>>),
     rationale |-> None]

\* what a layout:update event can carry as detail: nothing, a string, a
\* layout of the route, a layout that was not sanitized
Details ==
    { None, Some([string |-> <<"d">>]),
      Some(sanitizeLayout(Complete, SanitizeOptions)),
      Some(sanitizeLayout(Roomless, SanitizeOptions)),
      Some(Furnished) }

\* the textarea's onChange: setDescription(e.target.value); the textarea is
\* disabled while a request is pending
SetDescription ==
    /\ ~chat.isPending
    /\ \E text \in Descriptions : chat' = [chat EXCEPT !.description = text]
    /\ UNCHANGED <<viewer, fetches, sanitizerVars, snapVars, routeVars, sceneVars,
                   retrieverVars>>

\* handleSubmit behind a button that stays enabled while a request is pending
HandleSubmit_NotDisabled ==
    LET trimmed == Trim(chat.description)
    IN  /\ Len(chat.messages) + 2 <= MaxMessages
        /\ IF trimmed = << >>
           THEN /\ chat' = [chat EXCEPT !.errorMessage =
                              Some("Please describe the room you want to generate.")]
                /\ UNCHANGED fetches
           ELSE /\ chat' = [chat EXCEPT
                              !.isPending = TRUE,
                              !.errorMessage = None,
                              !.responseOpen = TRUE,
                              !.lastLayout = None,
                              !.messages = Append(@, [role |-> "user",
                                                      text |-> [string |-> trimmed]])]
                /\ fetches' = Append(fetches, [description |-> trimmed])
        /\ UNCHANGED <<viewer, sanitizerVars, snapVars, routeVars, sceneVars,
                       retrieverVars>>

\* handleSubmit up to its await: the form is submitted (its button is
\* disabled while a request is pending)
HandleSubmit ==
    LET trimmed == Trim(chat.description)
    IN  /\ ~chat.isPending
        /\ Len(chat.messages) + 2 <= MaxMessages
        /\ IF trimmed = << >>
           THEN /\ chat' = [chat EXCEPT !.errorMessage =
                              Some("Please describe the room you want to generate.")]
                /\ UNCHANGED fetches
           ELSE /\ chat' = [chat EXCEPT
                              !.isPending = TRUE,
                              !.errorMessage = None,
                              !.responseOpen = TRUE,
                              !.lastLayout = None,
                              !.messages = Append(@, [role |-> "user",
                                                      text |-> [string |-> trimmed]])]
                /\ fetches' = Append(fetches, [description |-> trimmed])
        /\ UNCHANGED <<viewer, sanitizerVars, snapVars, routeVars, sceneVars,
                       retrieverVars>>

\* !response.ok || !json.ok || !json.data, or one of the awaits rejected
Failed(outcome) ==
    \/ outcome.kind # "json"
    \/ outcome.status \notin 200..299
    \/ ~outcome.body.ok
    \/ outcome.body.data = None

\* the message of the error handleSubmit catches
MessageOf(outcome) ==
    IF outcome.kind = "rejects" THEN "Failed to fetch"
    ELSE IF outcome.kind = "notJson" THEN "Unexpected token"
    ELSE OrElse(outcome.body.error, "Request failed with status")

\* handleSubmit without its finally block
Settled_NoFinally(c, outcome) ==
    IF Failed(outcome)
    THEN [c EXCEPT !.messages = Append(@, [role |-> "assistant",
                                            text |-> [error |-> MessageOf(outcome)]]),
                   !.errorMessage = Some(MessageOf(outcome))]
    ELSE [c EXCEPT !.messages = Append(@, [role |-> "assistant",
                                            text |-> [json |-> outcome.body.data[1]]]),
                   !.lastLayout = outcome.body.data]

\* handleSubmit from its await on: try, catch and finally
Settled(c, outcome) ==
    IF Failed(outcome)
    THEN [c EXCEPT !.messages = Append(@, [role |-> "assistant",
                                            text |-> [error |-> MessageOf(outcome)]]),
                   !.errorMessage = Some(MessageOf(outcome)),
                   !.isPending = FALSE,
                   !.description = << >>]
    ELSE [c EXCEPT !.messages = Append(@, [role |-> "assistant",
                                            text |-> [json |-> outcome.body.data[1]]]),
                   !.lastLayout = outcome.body.data,
                   !.isPending = FALSE,
                   !.description = << >>]

\* the oldest fetch settles and handleSubmit runs to its end
FetchSettled ==
    /\ fetches # << >>
    /\ \E outcome \in Outcomes : chat' = Settled(chat, outcome)
    /\ fetches' = Tail(fetches)
    /\ UNCHANGED <<viewer, sanitizerVars, snapVars, routeVars, sceneVars,
                   retrieverVars>>

\* onUpdate: a layout:update event reaches the listener of ViewerPanel
OnUpdate ==
    /\ \E detail \in Details :
          viewer' = IF detail # None /\ "string" \notin DOMAIN detail[1]
                    THEN [viewer EXCEPT !.layout = detail]
                    ELSE viewer
    /\ UNCHANGED <<chat, fetches, sanitizerVars, snapVars, routeVars, sceneVars,
                   retrieverVars>>

NextPage == SetDescription \/ HandleSubmit \/ FetchSettled \/ OnUpdate

\* a fetch that was started settles: it resolves or rejects
SpecPage == Init /\ [][NextPage]_vars /\ WF_vars(FetchSettled)

----------------------------------------------------------------------------
(* The viewer: RoomViewer loads the manifest when it mounts and renders     *)
(* SceneObjects once it has a layout and a manifest.                        *)

\* the most manifest loads in flight (one per mount)
MaxLoads == 2

\* meta?.h ?? 1 (1 m)
DefaultHeight == 80

\* meta?.w ?? 0.8, meta?.d ?? 0.8 (0.8 m)
DefaultFootprint == 64

\* a manifest whose paths leave the public directory: "/x", "/modelsx"
Misplaced ==
    [key \in {<<"desk">>, <<"lamp">>} |->
        IF key = <<"desk">>
        THEN [path |-> <<"/", "x">>, w |-> 96, d |-> 48, h |-> 60]
        ELSE [path |-> <<"/", "m", "o", "d", "e", "l", "s", "x">>,
              w |-> 24, d |-> 24, h |-> 120]]

\* a manifest whose only entry has the path ""
Pathless == [key \in {<<"desk">>} |-> [path |-> << >>, w |-> 96, d |-> 48, h |-> 60]]

Manifests == {ModelsJson, Misplaced, Pathless}

\* the model strings of layout objects: none, a key, prefixed keys, an
\* unknown key, a prefix with nothing after it
ModelKeys ==
    { << >>, <<"desk">>, GltfDesk, GltfLamp, <<"sofa">>, <<"gltf", ":">>,
      <<"gltf", ":", "sofa">> }

\* obj.construction
Construction(obj) ==
    IF "construction" \in DOMAIN obj THEN obj.construction ELSE None

\* obj.position_m?.x, .y, .z
Coordinate(obj, axis) ==
    IF obj.position_m = None THEN None
    ELSE IF axis = "x" THEN obj.position_m[1].x
    ELSE IF axis = "y" THEN obj.position_m[1].y
    ELSE obj.position_m[1].z

\* mutant of SceneObject: an object without a height is put at y = 0
SceneObject_OnFloor(models, obj) ==
    LET modelKey == OrElse(obj.model, << >>)
        path == resolveModelPath(models, Some(modelKey))
        meta == getModelMeta(models, Some(modelKey))
        h == IF meta = None THEN DefaultHeight ELSE meta[1].h
        position == <<OrElse(Coordinate(obj, "x"), 0),
                      OrElse(Coordinate(obj, "y"), 0),
                      OrElse(Coordinate(obj, "z"), 0)>>
    IN  IF TruthyText(path)
        THEN [kind |-> "GLTFModel", id |-> obj.id, position |-> position,
              path |-> path[1]]
        ELSE IF Construction(obj) # None /\ Len(Construction(obj)[1]) > 0
        THEN [kind |-> "PrimitiveBuilder", id |-> obj.id, position |-> position,
              construction |-> Construction(obj)[1]]
        ELSE [kind |-> "box", id |-> obj.id, position |-> position,
              args |-> <<IF meta = None THEN DefaultFootprint ELSE meta[1].w,
                         h,
                         IF meta = None THEN DefaultFootprint ELSE meta[1].d>>]

\* the callback of layout.objects?.map: the element one object is rendered as
\* (its rotation is left out)
SceneObject(models, obj) ==
    LET modelKey == OrElse(obj.model, << >>)
        path == resolveModelPath(models, Some(modelKey))
        meta == getModelMeta(models, Some(modelKey))
        h == IF meta = None THEN DefaultHeight ELSE meta[1].h
        position == <<OrElse(Coordinate(obj, "x"), 0),
                      OrElse(Coordinate(obj, "y"), Half(h)),
                      OrElse(Coordinate(obj, "z"), 0)>>
    IN  IF TruthyText(path)
        THEN [kind |-> "GLTFModel", id |-> obj.id, position |-> position,
              path |-> path[1]]
        ELSE IF Construction(obj) # None /\ Len(Construction(obj)[1]) > 0
        THEN [kind |-> "PrimitiveBuilder", id |-> obj.id, position |-> position,
              construction |-> Construction(obj)[1]]
        ELSE [kind |-> "box", id |-> obj.id, position |-> position,
              args |-> <<IF meta = None THEN DefaultFootprint ELSE meta[1].w,
                         h,
                         IF meta = None THEN DefaultFootprint ELSE meta[1].d>>]

\* function SceneObjects({ layout, models }): the elements of the group
SceneObjects(lay, models) ==
    LET objects == OrElse(lay.objects, << >>)
    IN  [i \in 1..Len(objects) |-> SceneObject(models, objects[i])]

\* how a load of /models.json ends: fetch rejects, the response is not ok,
\* its body is not JSON, or it is a manifest
ManifestOutcomes ==
    { [kind |-> "error", message |-> "Failed to fetch"],
      [kind |-> "error", message |-> "Failed to load models.json: 404"],
      [kind |-> "error", message |-> "Unexpected token"] }
    \cup { [kind |-> "json", models |-> models] : models \in Manifests }

\* useEffect of RoomViewer: a new component mounts, its state is empty and a
\* load of the manifest starts with its own flag
MountViewer ==
    /\ ~roomViewer.mounted
    /\ Len(roomViewer.loads) < MaxLoads
    /\ roomViewer' = [mounted |-> TRUE, models |-> None, error |-> None,
                      loads |-> Append(roomViewer.loads, [cancelled |-> FALSE])]
    /\ UNCHANGED <<sanitizerVars, snapVars, routeVars, panelVars, retrieverVars>>

\* the cleanup of the effect: cancelled = true (loads of earlier mounts are
\* cancelled already)
UnmountViewer ==
    /\ roomViewer.mounted
    /\ roomViewer' = [roomViewer EXCEPT
                        !.mounted = FALSE,
                        !.loads = [i \in DOMAIN @ |-> [cancelled |-> TRUE]]]
    /\ UNCHANGED <<sanitizerVars, snapVars, routeVars, panelVars, retrieverVars>>

Without(loads, i) ==
    SubSeq(loads, 1, i - 1) \o SubSeq(loads, i + 1, Len(loads))

\* mutant of LoadEnds: the flag of the effect is not looked at
LoadEnds_Uncancelled(viewerState, i, outcome) ==
    IF outcome.kind = "json"
    THEN [viewerState EXCEPT !.models = Some(outcome.models),
                             !.loads = Without(@, i)]
    ELSE [viewerState EXCEPT !.error = Some(outcome.message),
                             !.loads = Without(@, i)]

\* the async function of the effect after its awaits:
\* if (!cancelled) setModels(json), or in catch: if (!cancelled) setError(msg)
LoadEnds(viewerState, i, outcome) ==
    IF viewerState.loads[i].cancelled
    THEN [viewerState EXCEPT !.loads = Without(@, i)]
    ELSE IF outcome.kind = "json"
    THEN [viewerState EXCEPT !.models = Some(outcome.models),
                             !.loads = Without(@, i)]
    ELSE [viewerState EXCEPT !.error = Some(outcome.message),
                             !.loads = Without(@, i)]

\* a load of the manifest settles
ManifestSettled ==
    /\ \E i \in DOMAIN roomViewer.loads, outcome \in ManifestOutcomes :
          roomViewer' = LoadEnds(roomViewer, i, outcome)
    /\ UNCHANGED <<sanitizerVars, snapVars, routeVars, panelVars, retrieverVars>>

\* {layout && models ? <SceneObjects layout={layout} models={models} /> : null}
\* with the layout ViewerPanel passes down
Scene ==
    IF roomViewer.mounted /\ viewer.layout # None /\ roomViewer.models # None
    THEN Some(SceneObjects(viewer.layout[1], roomViewer.models[1]))
    ELSE None

NextViewer == MountViewer \/ UnmountViewer \/ ManifestSettled \/ OnUpdate

SpecViewer == Init /\ [][NextViewer]_vars

----------------------------------------------------------------------------
(* The retriever: getTopKModels picks the candidates of a description. The   *)
(* manifest is held here as Object.entries lists it, a sequence of entries  *)
(* [id, meta]; ref is the identity of the meta object, which                 *)
(* ranked.includes(meta) compares.                                           *)

\* the largest k of a call
MaxK == 4

\* value.toLowerCase(), on the letters the texts are made of
LowerChar(ch) == IF ch = "D" THEN "d" ELSE IF ch = "L" THEN "l" ELSE ch

toLowerCase(text) == [i \in 1..Len(text) |-> LowerChar(text[i])]

\* text.includes(word)
Includes(text, word) ==
    \E i \in 0..(Len(text) - Len(word)) : SubSeq(text, i + 1, i + Len(word)) = word

\* text.split(/\s+/): the pieces between runs of whitespace, piece being the
\* one that is read; a text that starts or ends with whitespace has an empty
\* first or last piece
RECURSIVE SplitOnSpaces(_, _)
SplitOnSpaces(text, piece) ==
    IF text = << >> THEN <<piece>>
    ELSE IF Head(text) = " "
    THEN <<piece>> \o SplitOnSpaces(TrimStart(Tail(text)), << >>)
    ELSE SplitOnSpaces(Tail(text), Append(piece, Head(text)))

\* query.toLowerCase().split(/\s+/).map((word) => word.trim()).filter(Boolean)
QueryWords(query) ==
    LET pieces == SplitOnSpaces(toLowerCase(query), << >>)
        trimmed == [i \in 1..Len(pieces) |-> Trim(pieces[i])]
    IN  SelectSeq(trimmed, LAMBDA word : word # << >>)

\* [id, ...(meta.tags ?? [])].map((value) => value.toLowerCase())
Haystack(entry) ==
    LET texts == <<entry.id>> \o OrElse(entry.meta.tags, << >>)
    IN  [i \in 1..Len(texts) |-> toLowerCase(texts[i])]

\* words.reduce(...): one for every word some text of the haystack includes
Score(words, entry) ==
    Cardinality({ i \in 1..Len(words) :
                    \E j \in 1..Len(Haystack(entry)) :
                        Includes(Haystack(entry)[j], words[i]) })

\* the order localeCompare gives the characters of paths
Collation == <<"/", "a", "b", "c", "d", "e", "l", "m", "o", "s">>

CollationRank(ch) == CHOOSE i \in DOMAIN Collation : Collation[i] = ch

\* a.localeCompare(b): negative, 0 or positive
RECURSIVE localeCompare(_, _)
localeCompare(a, b) ==
    IF a = << >> /\ b = << >> THEN 0
    ELSE IF a = << >> THEN -1
    ELSE IF b = << >> THEN 1
    ELSE IF Head(a) # Head(b)
    THEN IF CollationRank(Head(a)) < CollationRank(Head(b)) THEN -1 ELSE 1
    ELSE localeCompare(Tail(a), Tail(b))

\* mutant of compare: the paths do not break ties
compare_ScoreOnly(a, b) == b.score - a.score

\* the comparator of sort: higher scores first, then paths in ascending order
compare(a, b) ==
    IF b.score # a.score THEN b.score - a.score
    ELSE localeCompare(a.meta.path, b.meta.path)

\* entries.sort(compare): the sort is stable
Sorted(entries) ==
    LET Before(i, j) ==
            \/ compare(entries[i], entries[j]) < 0
            \/ compare(entries[i], entries[j]) = 0 /\ i < j
        Place(i) == Cardinality({j \in DOMAIN entries : Before(j, i)}) + 1
    IN  [p \in 1..Len(entries) |->
            entries[CHOOSE i \in DOMAIN entries : Place(i) = p]]

\* array.slice(0, k), k >= 0
Slice(array, k) == SubSeq(array, 1, MathMin(k, Len(array)))

\* scored.filter(score > 0).sort(...).slice(0, k).map((entry) => entry.meta)
Ranked(allEntries, words, k) ==
    LET scored == [i \in 1..Len(allEntries) |->
                      [meta |-> allEntries[i].meta,
                       score |-> Score(words, allEntries[i])]]
        best == Slice(Sorted(SelectSeq(scored, LAMBDA entry : entry.score > 0)), k)
    IN  [i \in 1..Len(best) |-> best[i].meta]

\* mutant of getTopKModels: the ranked matches are not filled up
getTopKModels_RankedOnly(models, query, k) ==
    LET words == QueryWords(query)
        metas == [i \in 1..Len(models) |-> models[i].meta]
    IN  IF Len(words) = 0 THEN Slice(metas, k) ELSE Ranked(models, words, k)

\* export function getTopKModels(models, query, k = 10): ModelMeta[]
getTopKModels(models, query, k) ==
    LET allEntries == models
        words == QueryWords(query)
        metas == [i \in 1..Len(allEntries) |-> allEntries[i].meta]
    IN  IF Len(words) = 0 THEN Slice(metas, k)
        ELSE LET ranked == Ranked(allEntries, words, k)
                 remaining ==
                     Slice(SelectSeq(metas,
                                     LAMBDA meta :
                                        ~\E i \in 1..Len(ranked) : ranked[i] = meta),
                           k - Len(ranked))
             IN  IF Len(ranked) < k THEN ranked \o remaining ELSE ranked

\* a manifest of four models; "desk" is the id of one and a tag of another,
\* whose path comes first, and two models share a path
Catalogue ==
    << [id |-> <<"d", "e", "s", "k">>, meta |-> [ref |-> 1, path |-> ModelsDir \o <<"c">>,
                                    tags |-> Some(<<<<"w", "o", "o", "d">>>>)]],
       [id |-> <<"l", "a", "m", "p">>, meta |-> [ref |-> 2, path |-> ModelsDir \o <<"b">>,
                                    tags |-> Some(<<<<"D", "e", "s", "k">>, <<"l", "e", "d">>>>)]],
       [id |-> <<"b", "e", "d">>, meta |-> [ref |-> 3, path |-> ModelsDir \o <<"a">>,
                                   tags |-> None]],
       [id |-> <<"s", "l", "e", "d">>, meta |-> [ref |-> 4, path |-> ModelsDir \o <<"a">>,
                                    tags |-> Some(<<<<"w", "o", "o", "d">>>>)]] >>

\* a manifest of two models that differ in their ids only
Twins ==
    << [id |-> <<"b", "e", "d">>, meta |-> [ref |-> 1, path |-> ModelsDir \o <<"a">>,
                                   tags |-> Some(<<<<"o", "a", "k">>>>)]],
       [id |-> <<"b", "a", "d">>, meta |-> [ref |-> 2, path |-> ModelsDir \o <<"a">>,
                                   tags |-> Some(<<<<"o", "a", "k">>>>)]] >>

Catalogues == {Catalogue, Twins, << >>}

\* "", " ", "desk", "Desk  led", "wood desk desk", "e", "sofa", " led ",
\* "bed oak"
Queries ==
    { << >>, <<" ">>, <<"d", "e", "s", "k">>,
      <<"D", "e", "s", "k", " ", " ", "l", "e", "d">>,
      <<"w", "o", "o", "d", " ", "d", "e", "s", "k", " ", "d", "e", "s", "k">>,
      <<"e">>, <<"s", "o", "f", "a">>, <<" ", "l", "e", "d", " ">>,
      <<"b", "e", "d", " ", "o", "a", "k">> }

\* a route calls getTopKModels(models, descriptionWithStyle, TOP_K)
GetTopKModels ==
    /\ retrieval = None
    /\ \E models \in Catalogues, query \in Queries, k \in 0..MaxK :
          retrieval' = Some([models |-> models, query |-> query, k |-> k,
                             result |-> getTopKModels(models, query, k)])
    /\ UNCHANGED <<sanitizerVars, snapVars, routeVars, panelVars, sceneVars>>

\* the route goes on with the candidates
CandidatesUsed ==
    /\ retrieval # None
    /\ retrieval' = None
    /\ UNCHANGED <<sanitizerVars, snapVars, routeVars, panelVars, sceneVars>>

NextRetriever == GetTopKModels \/ CandidatesUsed

SpecRetriever == Init /\ [][NextRetriever]_vars

----------------------------------------------------------------------------
(* What the claims speak about *)

\* sanitizeLayout has returned
Called == pc = "done"

\* the objects handed in and the objects returned
InObjects == OrElse(layout.objects, << >>)

OutObjects == clean[1].objects[1]

\* the room of the returned layout
OutRoom == clean[1].room[1]

ValidRoom(room) == room.width_m > 0 /\ room.depth_m > 0 /\ room.height_m > 0

Abs(v) == IF v < 0 THEN -v ELSE v

OnGrid(v) == v % SNAP = 0

\* the coordinates an input object supplies (absent or present)
PosX(object) == IF object.position_m = None THEN None ELSE object.position_m[1].x

PosY(object) == IF object.position_m = None THEN None ELSE object.position_m[1].y

PosZ(object) == IF object.position_m = None THEN None ELSE object.position_m[1].z

\* the coordinates of a returned object
OutX(object) == object.position_m[1].x[1]

OutY(object) == object.position_m[1].y[1]

OutZ(object) == object.position_m[1].z[1]

\* the footprint and height an object gives (absent or present)
SizeW(object) == IF object.size_m = None THEN None ELSE object.size_m[1].w

SizeD(object) == IF object.size_m = None THEN None ELSE object.size_m[1].d

SizeH(object) == IF object.size_m = None THEN None ELSE object.size_m[1].h

ExplicitSize(object) ==
    SizeW(object) # None /\ SizeD(object) # None /\ SizeH(object) # None

\* a parent reference: a non-empty parent id
HasParent(object) == object.parent # None /\ object.parent[1] # ""

Snapped(opt) == snapValue(SanitizeOptions, OrElse(opt, 0))

\* the object's height: its explicit size height, otherwise the height of its
\* model in the manifest, otherwise unknown
HeightOf(object) ==
    IF SizeH(object) # None THEN SizeH(object)
    ELSE LET meta == getModelMeta(ModelsJson, object.model)
         IN  IF meta = None THEN None ELSE Some(meta[1].h)

\* the returned layout reports condition c for its i-th object, in a list of
\* the layout or of the object
HasCondition(lay, i, c) ==
    \/ "warnings" \in DOMAIN lay
         /\ <<lay.objects[1][i].id, c>> \in lay.warnings
    \/ "warnings" \in DOMAIN lay.objects[1][i]
         /\ c \in lay.objects[1][i].warnings

----------------------------------------------------------------------------
(* C1 *)

\* C1 as stated: for every valid room and every input position, each returned
\* object has its footprint inside the room: |x| + w/2 <= width/2 and
\* |z| + d/2 <= depth/2.
C1_ContainmentEveryObject ==
    Called /\ ValidRoom(OutRoom) =>
        \A i \in 1..Len(OutObjects) :
            /\ 2 * Abs(OutX(OutObjects[i])) + OrElse(SizeW(OutObjects[i]), 0)
                  <= OutRoom.width_m
            /\ 2 * Abs(OutZ(OutObjects[i])) + OrElse(SizeD(OutObjects[i]), 0)
                  <= OutRoom.depth_m

\* C1 amended: for every valid room and every input position, each returned
\* object has its footprint inside the room on every horizontal axis on which
\* it is not larger than the room: w <= width gives |x| + w/2 <= width/2, and
\* d <= depth gives |z| + d/2 <= depth/2.
C1_ContainmentWhenFits ==
    Called /\ ValidRoom(OutRoom) =>
        \A i \in 1..Len(OutObjects) :
            LET w == OrElse(SizeW(OutObjects[i]), 0)
                d == OrElse(SizeD(OutObjects[i]), 0)
            IN  /\ w <= OutRoom.width_m =>
                      2 * Abs(OutX(OutObjects[i])) + w <= OutRoom.width_m
                /\ d <= OutRoom.depth_m =>
                      2 * Abs(OutZ(OutObjects[i])) + d <= OutRoom.depth_m

\* C1 witness: an object 0.75 m wide placed 10 m to the right of a valid room
\* comes back touching the right wall from inside.
C1_Witness ==
    /\ Called /\ ValidRoom(OutRoom) /\ Len(OutObjects) = 1
    /\ PosX(InObjects[1]) = Some(Far)
    /\ SizeW(InObjects[1]) = Some(60)
    /\ 2 * OutX(OutObjects[1]) + 60 = OutRoom.width_m

----------------------------------------------------------------------------
(* C2 *)

\* the example of the claim: room 4 x 3.5 x 2.7, position (10, 0, 0), size
\* (1, 1, 1), no parent
C2_IsExample(i) ==
    /\ layout.room = Some([width_m |-> 320, depth_m |-> 280, height_m |-> 216])
    /\ ~HasParent(InObjects[i])
    /\ InObjects[i].position_m = Some([x |-> Some(800), y |-> Some(0), z |-> Some(0)])
    /\ InObjects[i].size_m = Some([w |-> Some(80), d |-> Some(80), h |-> Some(80)])

\* the example resolves to (1.5, 0.5, 0)
C2_ExampleResult(i) ==
    /\ OutX(OutObjects[i]) = 120
    /\ OutY(OutObjects[i]) = 40
    /\ OutZ(OutObjects[i]) = 0

\* C2 as stated: for an unparented object with explicit size (w, d, h) in a
\* room W x D, an x beyond the right wall resolves to W/2 - w/2, a z inside
\* [-D/2 + d/2, D/2 - d/2] is returned as its snapped value, a vertical
\* coordinate 0 resolves to h/2, and the example resolves to (1.5, 0.5, 0).
C2_PlacementAsStated ==
    Called /\ ValidRoom(OutRoom) =>
        \A i \in 1..Len(OutObjects) :
            LET in == InObjects[i]
                out == OutObjects[i]
            IN  /\ ~HasParent(in) /\ ExplicitSize(in) =>
                    LET w == SizeW(in)[1]
                        d == SizeD(in)[1]
                        h == SizeH(in)[1]
                    IN  /\ PosX(in) # None /\ 2 * OrElse(PosX(in), 0) > OutRoom.width_m
                              => 2 * OutX(out) = OutRoom.width_m - w
                        /\ PosZ(in) # None
                              /\ 2 * OrElse(PosZ(in), 0) >= -OutRoom.depth_m + d
                              /\ 2 * OrElse(PosZ(in), 0) <= OutRoom.depth_m - d
                              => OutZ(out) = Snapped(PosZ(in))
                        /\ PosY(in) = Some(0) => 2 * OutY(out) = h
                /\ C2_IsExample(i) => C2_ExampleResult(i)

\* C2 amended: for an unparented object with explicit size (w, d, h) in a
\* room W x D, an x whose snapped value is at or beyond W/2 - w/2 resolves to
\* W/2 - w/2 when w <= W, a z whose snapped value is inside
\* [-D/2 + d/2, D/2 - d/2] is returned as that snapped value, a vertical
\* coordinate 0 resolves to h/2 when h >= 0, and the example resolves to
\* (1.5, 0.5, 0).
C2_PlacementAmended ==
    Called /\ ValidRoom(OutRoom) =>
        \A i \in 1..Len(OutObjects) :
            LET in == InObjects[i]
                out == OutObjects[i]
            IN  /\ ~HasParent(in) /\ ExplicitSize(in) =>
                    LET w == SizeW(in)[1]
                        d == SizeD(in)[1]
                        h == SizeH(in)[1]
                    IN  /\ w <= OutRoom.width_m
                              /\ 2 * Snapped(PosX(in)) >= OutRoom.width_m - w
                              => 2 * OutX(out) = OutRoom.width_m - w
                        /\ 2 * Snapped(PosZ(in)) >= -OutRoom.depth_m + d
                              /\ 2 * Snapped(PosZ(in)) <= OutRoom.depth_m - d
                              => OutZ(out) = Snapped(PosZ(in))
                        /\ PosY(in) = Some(0) /\ h >= 0 => 2 * OutY(out) = h
                /\ C2_IsExample(i) => C2_ExampleResult(i)

\* C2 witness: the example has been sanitized and came back as (1.5, 0.5, 0).
C2_Witness ==
    /\ Called /\ Len(OutObjects) = 1
    /\ C2_IsExample(1)
    /\ C2_ExampleResult(1)

----------------------------------------------------------------------------
(* C3 *)

\* C3 as stated: every unparented object whose vertical coordinate was not
\* supplied resolves to half of its height, the height being the explicit
\* size height when given and otherwise the height of its model in the
\* manifest.
C3_FloorResting ==
    Called =>
        \A i \in 1..Len(OutObjects) :
            ~HasParent(InObjects[i]) /\ PosY(InObjects[i]) = None
                /\ HeightOf(InObjects[i]) # None
                => 2 * OutY(OutObjects[i]) = HeightOf(InObjects[i])[1]

----------------------------------------------------------------------------
(* C4 *)

\* C4 as stated: an unparented object that supplies its vertical position
\* keeps it, grid-snapped; nothing else touches the vertical axis.
C4_ExplicitYKept ==
    Called =>
        \A i \in 1..Len(OutObjects) :
            ~HasParent(InObjects[i]) /\ PosY(InObjects[i]) # None
                => OutY(OutObjects[i]) = Snapped(PosY(InObjects[i]))

\* C4 amended: an unparented object that supplies its vertical position and
\* a size height h gets the larger of h/2 and its grid-snapped position;
\* without a size height it keeps its grid-snapped position; the result is
\* never clamped under the ceiling.
C4_ExplicitYRaisedToHalfHeight ==
    Called =>
        \A i \in 1..Len(OutObjects) :
            LET in == InObjects[i]
                sy == Snapped(PosY(in))
            IN  ~HasParent(in) /\ PosY(in) # None
                    => OutY(OutObjects[i]) =
                          IF SizeH(in) # None /\ 2 * sy < SizeH(in)[1]
                          THEN Half(SizeH(in)[1])
                          ELSE sy

\* C4 witness: an unparented object 1 m high supplied y = 3 m in a room
\* 2.7 m high and kept it.
C4_Witness ==
    /\ Called /\ Len(OutObjects) = 1
    /\ ~HasParent(InObjects[1])
    /\ PosY(InObjects[1]) = Some(240)
    /\ SizeH(InObjects[1]) = Some(80)
    /\ OutRoom.height_m = 216
    /\ OutY(OutObjects[1]) = 240

----------------------------------------------------------------------------
(* C5 *)

\* C5: an object with a parent reference is never raised to half its height:
\* its vertical position is its grid-snapped supplied position (0 when none
\* was supplied), whatever its size.
C5_ParentedNotRaised ==
    Called =>
        \A i \in 1..Len(OutObjects) :
            HasParent(InObjects[i])
                => OutY(OutObjects[i]) = Snapped(PosY(InObjects[i]))

\* C5 witness: a parented object 1 m high with no vertical coordinate came
\* back at 0, below half its height.
C5_Witness ==
    /\ Called /\ Len(OutObjects) = 1
    /\ HasParent(InObjects[1])
    /\ PosY(InObjects[1]) = None
    /\ SizeH(InObjects[1]) = Some(80)
    /\ OutY(OutObjects[1]) = 0

----------------------------------------------------------------------------
(* C6 *)

\* C6 as stated: an object whose half extent on a horizontal axis exceeds the
\* room's half extent on that axis comes back at the room centre 0 on that
\* axis, for every input coordinate.
C6_OversizedCentred ==
    Called =>
        \A i \in 1..Len(OutObjects) :
            /\ OrElse(SizeW(InObjects[i]), 0) > OutRoom.width_m
                  => OutX(OutObjects[i]) = 0
            /\ OrElse(SizeD(InObjects[i]), 0) > OutRoom.depth_m
                  => OutZ(OutObjects[i]) = 0

----------------------------------------------------------------------------
(* C7 *)

\* the grid index Math.round(value / step) of the first application, as an
\* integer
C7_GridIndex == FlMathRound(FlDiv(snapArgs[1].value, snapArgs[1].step)) \div One

\* C7 as stated: snap(snap(v, s), s) = snap(v, s) for every finite v and
\* every step s > 0.
C7_SnapIdempotent ==
    Len(snapResults) = 2 => snapResults[2] = snapResults[1]

\* C7 amended: snap(snap(v, s), s) = snap(v, s) for every finite v and every
\* step s > 0 whose grid index round(v / s) is below a quarter of the
\* significand's range in magnitude (2^51 for the 53 bits of a JavaScript
\* number).
C7_SnapIdempotentSmallIndex ==
    Len(snapResults) = 2 /\ Abs(C7_GridIndex) < 2 ^ (Prec - 2)
        => snapResults[2] = snapResults[1]

\* C7 witness: a negative value exactly halfway between two grid points
\* (-1.5 steps) was snapped up to -1 step, and snapped again.
C7_Witness ==
    /\ Len(snapResults) = 2
    /\ snapArgs[1].step = 6
    /\ snapArgs[1].value = -9
    /\ snapResults = <<-6, -6>>
    /\ Abs(C7_GridIndex) < 2 ^ (Prec - 2)

----------------------------------------------------------------------------
(* C8 *)

\* C8 as stated: every coordinate of every returned object is an integer
\* multiple of the grid step.
C8_AllOnGrid ==
    Called =>
        \A i \in 1..Len(OutObjects) :
            /\ OnGrid(OutX(OutObjects[i]))
            /\ OnGrid(OutY(OutObjects[i]))
            /\ OnGrid(OutZ(OutObjects[i]))

\* C8 amended: every coordinate of every returned object is an integer
\* multiple of the grid step unless the bounds clamp or the floor rule moved
\* it: x and z are grid multiples or equal to a clamp bound
\* (+/-(room half extent - half size)), y is a grid multiple or equal to h/2.
C8_OnGridUnlessMoved ==
    Called =>
        \A i \in 1..Len(OutObjects) :
            LET in == InObjects[i]
                out == OutObjects[i]
                w == OrElse(SizeW(in), 0)
                d == OrElse(SizeD(in), 0)
            IN  /\ \/ OnGrid(OutX(out))
                   \/ 2 * OutX(out) = OutRoom.width_m - w
                   \/ 2 * OutX(out) = -OutRoom.width_m + w
                /\ \/ OnGrid(OutY(out))
                   \/ SizeH(in) # None /\ 2 * OutY(out) = SizeH(in)[1]
                /\ \/ OnGrid(OutZ(out))
                   \/ 2 * OutZ(out) = OutRoom.depth_m - d
                   \/ 2 * OutZ(out) = -OutRoom.depth_m + d

\* C8 witness: an object was clamped to a wall bound that is off the grid and
\* lifted to a half height that is off the grid.
C8_Witness ==
    /\ Called /\ Len(OutObjects) = 1
    /\ PosX(InObjects[1]) = Some(Far)
    /\ ~OnGrid(OutX(OutObjects[1]))
    /\ ~OnGrid(OutY(OutObjects[1]))

----------------------------------------------------------------------------
(* C9 *)

\* C9: sanitizeLayout returns as many objects as it was given, in the same
\* order, and each returned object equals the object given in every field
\* but position_m (id, parent, model, rotation and size pass through).
C9_OnlyPositionsChange ==
    Called =>
        /\ Len(OutObjects) = Len(InObjects)
        /\ \A i \in 1..Len(OutObjects) :
              [OutObjects[i] EXCEPT !.position_m = InObjects[i].position_m]
                  = InObjects[i]

\* C9 witness: a batch of three objects, the first moved, the second without
\* a position and with a rotation, came back.
C9_Witness ==
    /\ Called /\ Len(InObjects) = 3
    /\ InObjects[1].position_m # OutObjects[1].position_m
    /\ InObjects[2].position_m = None
    /\ InObjects[2].rotation_deg # None
    /\ InObjects[1] # InObjects[3]

----------------------------------------------------------------------------
(* C10 *)

\* the i-th object and another object name each other as parent
InTwoCycle(i) ==
    \E j \in 1..Len(InObjects) :
        /\ InObjects[i].id # InObjects[j].id
        /\ InObjects[i].parent = Some(InObjects[j].id)
        /\ InObjects[j].parent = Some(InObjects[i].id)

\* C10 as stated: when object A's parent is B and B's parent is A, the
\* returned layout reports a CyclicReference condition for A and for B.
C10_CycleReported ==
    Called =>
        \A i \in 1..Len(OutObjects) :
            InTwoCycle(i) => HasCondition(clean[1], i, "CyclicReference")

----------------------------------------------------------------------------
(* C11 *)

\* the i-th object names a parent that no object of the layout has as id
DanglingParent(i) ==
    /\ HasParent(InObjects[i])
    /\ \A j \in 1..Len(InObjects) : InObjects[j].id # InObjects[i].parent[1]

\* C11 as stated: an object whose parent names no object of the layout is
\* returned where the same object without a parent would be (its own
\* position, floor resting applied as for any unparented object), and the
\* returned layout reports a DanglingParent condition for it.
C11_DanglingParentRecovered ==
    Called =>
        \A i \in 1..Len(OutObjects) :
            DanglingParent(i) =>
                /\ OutObjects[i].position_m =
                     sanitizeObject(OutRoom, SanitizeOptions,
                                    [InObjects[i] EXCEPT !.parent = None]).position_m
                /\ HasCondition(clean[1], i, "DanglingParent")

----------------------------------------------------------------------------
(* C12 *)

\* the object has no parent, a position with its three coordinates, and a
\* footprint with a positive width and depth
PlacedRoot(object) ==
    /\ ~HasParent(object)
    /\ PosX(object) # None /\ PosY(object) # None /\ PosZ(object) # None
    /\ SizeW(object) # None /\ SizeD(object) # None
    /\ SizeW(object)[1] > 0 /\ SizeD(object)[1] > 0

\* the footprints of the i-th and the j-th returned object overlap: on both
\* horizontal axes the centres are closer than the sum of the half sizes
FootprintsOverlap(i, j) ==
    /\ 2 * Abs(OutX(OutObjects[i]) - OutX(OutObjects[j]))
         < SizeW(OutObjects[i])[1] + SizeW(OutObjects[j])[1]
    /\ 2 * Abs(OutZ(OutObjects[i]) - OutZ(OutObjects[j]))
         < SizeD(OutObjects[i])[1] + SizeD(OutObjects[j])[1]

\* C12 as stated: two unparented objects handed in at identical coordinates
\* with nonzero footprints are returned with footprints that do not overlap,
\* or the returned layout reports an UnresolvedOverlap condition for them.
C12_OverlapMitigated ==
    Called =>
        \A i, j \in 1..Len(OutObjects) :
            ( /\ i # j
              /\ PlacedRoot(InObjects[i]) /\ PlacedRoot(InObjects[j])
              /\ InObjects[i].position_m = InObjects[j].position_m )
            => \/ ~FootprintsOverlap(i, j)
               \/ HasCondition(clean[1], i, "UnresolvedOverlap")
               \/ HasCondition(clean[1], j, "UnresolvedOverlap")

----------------------------------------------------------------------------
(* C13 *)

\* the i-th object hangs on the j-th: its parent is the j-th object's id, the
\* j-th object is a root, and the i-th object gives an offset from it
HangsOn(i, j) ==
    /\ i # j
    /\ InObjects[i].parent = Some(InObjects[j].id)
    /\ ~HasParent(InObjects[j])
    /\ InObjects[i].relative_position_m # None

RotationOf(object) == OrElse(object.rotation_deg, [x |-> 0, y |-> 0, z |-> 0])

\* C13 as stated: a child is returned at its parent's returned position plus
\* its own relative_position_m, coordinate by coordinate, and with the
\* parent's returned rotation plus its own rotation.
C13_ChildComposedWithParent ==
    Called =>
        \A i \in 1..Len(OutObjects) :
            (\E k \in 1..Len(OutObjects) : HangsOn(i, k)) =>
                \E j \in 1..Len(OutObjects) :
                    LET child == OutObjects[i]
                        parent == OutObjects[j]
                        offset == InObjects[i].relative_position_m[1]
                    IN  /\ HangsOn(i, j)
                        /\ OutX(child) = OutX(parent) + OrElse(offset.x, 0)
                        /\ OutY(child) = OutY(parent) + OrElse(offset.y, 0)
                        /\ OutZ(child) = OutZ(parent) + OrElse(offset.z, 0)
                        /\ RotationOf(child).x
                             = RotationOf(parent).x + RotationOf(InObjects[i]).x
                        /\ RotationOf(child).y
                             = RotationOf(parent).y + RotationOf(InObjects[i]).y
                        /\ RotationOf(child).z
                             = RotationOf(parent).z + RotationOf(InObjects[i]).z

----------------------------------------------------------------------------
(* C15 *)

\* a negative size is taken as absent
NonNegative(opt) == IF opt # None /\ opt[1] < 0 THEN None ELSE opt

\* the object with every negative size taken as absent
WithoutNegativeSizes(object) ==
    IF object.size_m = None THEN object
    ELSE [object EXCEPT !.size_m =
            Some([w |-> NonNegative(SizeW(object)),
                  d |-> NonNegative(SizeD(object)),
                  h |-> NonNegative(SizeH(object))])]

\* C15 as stated: a negative size is treated as absent: the object is
\* returned where the same object without that size would be, and in a valid
\* room its centre is never outside the walls.
C15_NegativeSizeAbsent ==
    Called =>
        \A i \in 1..Len(OutObjects) :
            /\ OutObjects[i].position_m =
                 sanitizeObject(OutRoom, SanitizeOptions,
                                WithoutNegativeSizes(InObjects[i])).position_m
            /\ ValidRoom(OutRoom) =>
                 /\ 2 * Abs(OutX(OutObjects[i])) <= OutRoom.width_m
                 /\ 2 * Abs(OutZ(OutObjects[i])) <= OutRoom.depth_m

----------------------------------------------------------------------------
(* C18 *)

\* value clamped into [-dimension/2 + size/2, dimension/2 - size/2], the
\* lower bound winning when the two cross
ClampedInto(dimension, value, size) ==
    MathMax(Half(size) - Half(dimension), MathMin(Half(dimension) - Half(size), value))

\* C18: when the layout handed in has a room, the returned room is that room,
\* and when it has none the returned room is 4 x 3.5 x 2.7 m; the horizontal
\* coordinates of every returned object are clamped against the returned
\* room.
C18_RoomPassesThrough ==
    Called =>
        /\ layout.room # None => clean[1].room = layout.room
        /\ layout.room = None =>
             OutRoom = [width_m |-> 320, depth_m |-> 280, height_m |-> 216]
        /\ \A i \in 1..Len(OutObjects) :
             /\ OutX(OutObjects[i]) =
                  ClampedInto(OutRoom.width_m, Snapped(PosX(InObjects[i])),
                              OrElse(SizeW(InObjects[i]), 0))
             /\ OutZ(OutObjects[i]) =
                  ClampedInto(OutRoom.depth_m, Snapped(PosZ(InObjects[i])),
                              OrElse(SizeD(InObjects[i]), 0))

\* C18 witness: a layout with a room 4.05 x 2.5 x 2.7 m came back with that
\* room, and an object 1 m deep handed in far behind it came back touching
\* its back wall, 0.75 m behind the centre.
C18_Witness ==
    /\ Called
    /\ layout.room = Some([width_m |-> 324, depth_m |-> 200, height_m |-> 216])
    /\ clean[1].room = layout.room
    /\ Len(OutObjects) = 1
    /\ PosZ(InObjects[1]) = Some(-Far)
    /\ SizeD(InObjects[1]) = Some(80)
    /\ OutZ(OutObjects[1]) = -60

----------------------------------------------------------------------------
(* What the claims about the routes speak about *)

Responded(r) == requests[r].pc = "responded"

ResponseOf(r) == requests[r].response[1]

\* the request has parsed the model's answer into a layout (not into null)
HasLayout(r) == requests[r].parsed # None /\ requests[r].parsed[1] # JsonNull

ParsedOf(r) == requests[r].parsed[1]

\* the layout of an ok:true response
DataOf(r) == ResponseOf(r).body.data[1]

----------------------------------------------------------------------------
(* C14 *)

\* C14 as stated: a request whose parsed layout has a room with a
\* non-positive width, depth or height is answered with ok:false and no
\* layout.
C14_InvalidRoomRejected ==
    \A r \in Requests :
        ( /\ Responded(r) /\ HasLayout(r)
          /\ ParsedOf(r).room # None
          /\ ~ValidRoom(ParsedOf(r).room[1]) )
        => /\ ~ResponseOf(r).body.ok
           /\ ResponseOf(r).body.data = None

----------------------------------------------------------------------------
(* C16 *)

\* C16 as stated: a request whose parsed layout has a valid room and a list
\* of objects is answered with ok:true, whatever its objects are (without
\* position, without size, null), and the response has an entry for every
\* entry of the list, each object of the list with its position.
C16_AnomaliesNeverAbort ==
    \A r \in Requests :
        ( /\ Responded(r) /\ HasLayout(r)
          /\ ParsedOf(r).room # None
          /\ ValidRoom(ParsedOf(r).room[1])
          /\ ParsedOf(r).objects # None )
        => /\ ResponseOf(r).body.ok
           /\ Len(DataOf(r).objects[1]) = Len(ParsedOf(r).objects[1])
           /\ \A i \in 1..Len(ParsedOf(r).objects[1]) :
                ParsedOf(r).objects[1][i] # JsonNull =>
                    /\ DataOf(r).objects[1][i].id = ParsedOf(r).objects[1][i].id
                    /\ DataOf(r).objects[1][i].position_m # None

----------------------------------------------------------------------------
(* C17 *)

\* the steps of the chat route, in the order of its code
ChatSteps ==
    <<"req.json", "extractDescription", "apiKey", "getModels", "getTopKModels",
      "buildSystemPrompt", "callGemini", "safeParseLayout", "sanitizeLayout">>

IsPrefix(s, t) == Len(s) <= Len(t) /\ s = SubSeq(t, 1, Len(s))

\* the layout has a room, and every object a position with three coordinates
\* that clamping against that room leaves where they are
FullySanitized(lay) ==
    /\ lay.room # None
    /\ lay.objects # None
    /\ \A i \in 1..Len(lay.objects[1]) :
         LET object == lay.objects[1][i]
         IN  /\ object.position_m # None
             /\ PosX(object) # None /\ PosY(object) # None /\ PosZ(object) # None
             /\ OutX(object) = ClampedInto(lay.room[1].width_m, OutX(object),
                                           OrElse(SizeW(object), 0))
             /\ OutZ(object) = ClampedInto(lay.room[1].depth_m, OutZ(object),
                                           OrElse(SizeD(object), 0))

\* the request came with a description that is a string with something
\* other than spaces in it
DescriptionValid(r) ==
    /\ requests[r].body # None
    /\ requests[r].body[1] # JsonNull
    /\ requests[r].body[1].description # None
    /\ "string" \in DOMAIN requests[r].body[1].description[1]
    /\ \E i \in DOMAIN requests[r].body[1].description[1].string :
          requests[r].body[1].description[1].string[i] # " "

\* the request's outcome is ok:true, status 200, with a fully sanitized
\* layout, after every step of the chat route has run in order, on a valid
\* description and with a key in the environment
EndsOk(r) ==
    /\ ResponseOf(r).status = 200
    /\ ResponseOf(r).body.ok
    /\ ResponseOf(r).body.error = None
    /\ ResponseOf(r).body.data # None
    /\ FullySanitized(DataOf(r))
    /\ requests[r].steps = ChatSteps
    /\ DescriptionValid(r)
    /\ Truthy(env.GOOGLE_GENERATIVE_AI_API_KEY)

\* the request's outcome is ok:false with a message, status 400, 503 or 500,
\* and no layout; the steps that ran are the first steps of the route up to
\* the failing one
EndsInError(r) ==
    /\ ResponseOf(r).status \in {400, 503, 500}
    /\ ~ResponseOf(r).body.ok
    /\ ResponseOf(r).body.error # None
    /\ ResponseOf(r).body.data = None
    /\ requests[r].steps # << >>
    /\ IsPrefix(requests[r].steps, ChatSteps)
    /\ ResponseOf(r).status = 400 =>
         requests[r].steps = SubSeq(ChatSteps, 1, 2) /\ ~DescriptionValid(r)
    /\ ResponseOf(r).status = 503 =>
         requests[r].steps = SubSeq(ChatSteps, 1, 3)

\* C17: every request of the chat route that has been answered ended in
\* exactly one of the two outcomes (ok:true with the fully sanitized layout
\* after all steps in order; ok:false with status 400, 503 or 500 after the
\* steps up to the failing one); a request has no response before it is
\* answered, and once answered runs no step and only ends.
C17_OneOutcome ==
    /\ [](\A r \in Requests :
            requests[r].route = "chat" =>
                /\ Responded(r) <=> requests[r].response # None
                /\ Responded(r) => (EndsOk(r) /\ ~EndsInError(r))
                                     \/ (EndsInError(r) /\ ~EndsOk(r)))
    /\ [][\A r \in Requests :
            (requests[r].route = "chat" /\ Responded(r)) =>
                requests'[r] \in {requests[r], IdleRequest}]_vars

\* C17 witness: a chat request has been answered ok:true after all nine
\* steps, and another with status 500 by a step after the key check.
C17_Witness ==
    \E r, o \in Requests :
        /\ requests[r].route = "chat" /\ Responded(r) /\ EndsOk(r)
        /\ Len(DataOf(r).objects[1]) = 2
        /\ requests[o].route = "chat" /\ Responded(o) /\ EndsInError(o)
        /\ ResponseOf(o).status = 500
        /\ Len(requests[o].steps) > 3

----------------------------------------------------------------------------
(* C19 *)

\* the vertical coordinate of an object handed in: its snapped y, raised to
\* half of its size height when it has one and no parent
RestedY(object) ==
    IF HasParent(object) \/ SizeH(object) = None
    THEN Snapped(PosY(object))
    ELSE MathMax(Half(SizeH(object)[1]), Snapped(PosY(object)))

\* lay is what the layout handed in alone determines: its room, or 4 x 3.5 x
\* 2.7 m without one; its rationale; its objects in their order, each with
\* its position snapped and clamped against that room and nothing else
\* changed
ResultOfAlone(lay, handedIn) ==
    LET room == OrElse(handedIn.room,
                       [width_m |-> 320, depth_m |-> 280, height_m |-> 216])
        objects == OrElse(handedIn.objects, << >>)
    IN  /\ lay.room = Some(room)
        /\ lay.rationale = handedIn.rationale
        /\ Len(lay.objects[1]) = Len(objects)
        /\ \A i \in 1..Len(objects) :
             lay.objects[1][i] =
               [objects[i] EXCEPT !.position_m = Some(
                  [x |-> Some(ClampedInto(room.width_m, Snapped(PosX(objects[i])),
                                          OrElse(SizeW(objects[i]), 0))),
                   y |-> Some(RestedY(objects[i])),
                   z |-> Some(ClampedInto(room.depth_m, Snapped(PosZ(objects[i])),
                                          OrElse(SizeD(objects[i]), 0)))])]

\* C19: whatever the other request is doing, a request answered ok:true
\* returns what its own parsed layout alone determines, and the step that
\* sanitizes leaves the parsed layout it was handed, and the other request,
\* as they were.
C19_CallsIndependent ==
    /\ [](\A r \in Requests :
            (Responded(r) /\ ResponseOf(r).body.ok) =>
                /\ requests[r].clean = ResponseOf(r).body.data
                /\ ResultOfAlone(DataOf(r), ParsedOf(r)))
    /\ [][\A r \in Requests :
            (requests[r].pc = "sanitizeLayout" /\ requests'[r].pc = "responded") =>
                /\ requests'[r].parsed = requests[r].parsed
                /\ \A o \in Requests \ {r} : requests'[o] = requests[o]]_vars

\* C19 witness: two requests in flight together have both been answered
\* ok:true, one with a layout in the room 4 x 3.5 m and one with a layout in
\* the room 4.05 x 2.5 m, each with its own room and objects.
C19_Witness ==
    \E r, o \in Requests :
        /\ Responded(r) /\ ResponseOf(r).body.ok
        /\ Responded(o) /\ ResponseOf(o).body.ok
        /\ ParsedOf(r) = Complete /\ DataOf(r).room = Room4
        /\ ParsedOf(o) = Elsewhere /\ DataOf(o).room = Room405
        /\ OutX(DataOf(r).objects[1][1]) # OutX(DataOf(o).objects[1][2])

----------------------------------------------------------------------------
(* C20 *)

\* the layouts a successful generation returns to the page
ReturnedLayouts ==
    {outcome.body.data[1] : outcome \in {o \in Outcomes : ~Failed(o)}}

\* C20 as stated: whenever a submit has succeeded with a layout (ChatPanel
\* holds it as lastLayout), the layout of ViewerPanel eventually is that
\* layout.
C20_ViewerFollows ==
    \A returned \in ReturnedLayouts :
        [](chat.lastLayout = Some(returned) => <>(viewer.layout = Some(returned)))

----------------------------------------------------------------------------
(* C26 *)

\* C26 as stated: sanitizeLayout applied to the layout it returned gives the
\* same room and, object by object, the same position.
C26_SanitizeIdempotent ==
    Called =>
        LET again == sanitizeLayout(clean[1], SanitizeOptions)
        IN  /\ again.room = clean[1].room
            /\ \A i \in 1..Len(OutObjects) :
                 again.objects[1][i].position_m = OutObjects[i].position_m

----------------------------------------------------------------------------
(* C24 *)

\* C24 as stated: in the generate route, a request whose parsed answer has no
\* room, or no array of objects, is answered with status 500, ok:false and
\* "Malformed layout: missing room/objects" without sanitizeLayout having
\* run; an ok:true answer is a layout that has both.
C24_MalformedRejected ==
    \A r \in Requests :
        (requests[r].route = "generate" /\ Responded(r)) =>
            /\ ( /\ requests[r].parsed # None
                 /\ ParsedOf(r) = JsonNull \/ Malformed(ParsedOf(r)) )
               => /\ ResponseOf(r).status = 500
                  /\ ~ResponseOf(r).body.ok
                  /\ ResponseOf(r).body.error
                       = Some("Malformed layout: missing room/objects")
                  /\ \A i \in DOMAIN requests[r].steps :
                       requests[r].steps[i] # "sanitizeLayout"
            /\ ResponseOf(r).body.ok =>
                  /\ HasLayout(r)
                  /\ ParsedOf(r).room # None
                  /\ ParsedOf(r).objects # None

----------------------------------------------------------------------------
(* C25 *)

\* the steps that come after the validation of the description
LaterSteps == {"apiKey", "getModels", "getTopKModels", "buildSystemPrompt", "callGemini"}

\* C25 as stated: a request whose body has no description that is a string
\* with something other than spaces in it is answered with status 400 and
\* "Invalid description", and for it neither the key check nor the manifest
\* load, the retrieval or the model call has run.
C25_InvalidDescription400 ==
    \A r \in Requests :
        (Responded(r) /\ requests[r].body # None /\ ~DescriptionValid(r)) =>
            /\ ResponseOf(r).status = 400
            /\ ResponseOf(r).body.error = Some("Invalid description")
            /\ \A i \in DOMAIN requests[r].steps :
                 requests[r].steps[i] \notin LaterSteps

\* C27: a submit of a blank description sends no request and appends no
\* message, it only sets the error message; a request is sent only by a
\* submit of a non-blank description, which sets isPending and appends
\* exactly one user message; when the request settles exactly one assistant
\* message is appended, isPending is reset and the description is cleared;
\* messages are appended by nothing else; lastLayout is set only by a
\* successful response, whose layout the last assistant message shows.
BlankSubmit == HandleSubmit /\ Trim(chat.description) = << >>

Sends == Len(fetches') = Len(fetches) + 1

Settles == Len(fetches') = Len(fetches) - 1

Appended(role) ==
    /\ Len(chat'.messages) = Len(chat.messages) + 1
    /\ SubSeq(chat'.messages, 1, Len(chat.messages)) = chat.messages
    /\ chat'.messages[Len(chat'.messages)].role = role

LastMessage == chat.messages[Len(chat.messages)]

C27_SubmitLifecycle ==
    /\ [][ /\ BlankSubmit =>
                /\ UNCHANGED fetches
                /\ chat'.messages = chat.messages
                /\ chat'.errorMessage # None
                /\ chat' = [chat EXCEPT !.errorMessage = chat'.errorMessage]
           /\ Sends =>
                /\ Trim(chat.description) # << >>
                /\ chat'.isPending
                /\ Appended("user")
                /\ fetches'[Len(fetches')].description = Trim(chat.description)
           /\ Settles =>
                /\ Appended("assistant")
                /\ ~chat'.isPending
                /\ chat'.description = << >>
           /\ chat'.messages # chat.messages => Sends \/ Settles
           /\ (chat'.lastLayout # None /\ chat'.lastLayout # chat.lastLayout)
                => Settles ]_vars
    /\ [](chat.lastLayout # None =>
            /\ chat.messages # << >>
            /\ LastMessage.role = "assistant"
            /\ LastMessage.text = [json |-> chat.lastLayout[1]])

\* a failed request and then a successful one, after a blank submit
C27_Witness ==
    /\ Len(chat.messages) = 4
    /\ "error" \in DOMAIN chat.messages[2].text
    /\ chat.lastLayout # None
    /\ ~chat.isPending
    /\ chat.description = << >>

\* C28: at most one request is in flight, isPending is true exactly while
\* one is, and the conversation alternates user and assistant messages in
\* the order of the requests: the message of the request in flight is the
\* last one.
C28_OneRequestInFlight ==
    /\ Len(fetches) <= 1
    /\ chat.isPending <=> fetches # << >>
    /\ \A i \in DOMAIN chat.messages :
          chat.messages[i].role = IF i % 2 = 1 THEN "user" ELSE "assistant"
    /\ fetches # << >> =>
          /\ chat.messages # << >>
          /\ LastMessage.role = "user"
          /\ LastMessage.text = [string |-> fetches[1].description]
    /\ fetches = << >> => Len(chat.messages) % 2 = 0

\* the second request is in flight after the first has settled
C28_Witness ==
    /\ Len(fetches) = 1
    /\ Len(chat.messages) = 3
    /\ chat.isPending

\* C21: in the rendered scene every object of the layout has its element; an
\* object without position_m.y stands at half the height its manifest entry
\* gives, or at half of 1 m when the manifest has no entry for its model, and
\* an object without entry and without construction is a box of
\* 0.8 x 1 x 0.8 m.
SceneLayoutObjects == OrElse(viewer.layout[1].objects, << >>)

EntryOf(obj) == getModelMeta(roomViewer.models[1], Some(OrElse(obj.model, << >>)))

C21_MissingHeightPlaced ==
    Scene # None =>
        /\ Len(Scene[1]) = Len(SceneLayoutObjects)
        /\ \A i \in 1..Len(SceneLayoutObjects) :
             LET obj == SceneLayoutObjects[i]
                 element == Scene[1][i]
                 entry == EntryOf(obj)
             IN  /\ element.id = obj.id
                 /\ element.kind \in {"GLTFModel", "PrimitiveBuilder", "box"}
                 /\ Coordinate(obj, "y") = None =>
                       element.position[2] =
                          IF entry = None THEN 40 ELSE Half(entry[1].h)
                 /\ entry = None =>
                       /\ element.kind # "GLTFModel"
                       /\ element.kind = "box" => element.args = <<64, 80, 64>>

\* the desk has an entry and no height, the sofa has neither entry nor position
C21_Witness ==
    /\ Scene # None
    /\ viewer.layout = Some(Furnished)
    /\ roomViewer.models = Some(ModelsJson)
    /\ Scene[1][1].position = <<80, 30, -40>>
    /\ Scene[1][2].position = <<0, 40, 0>>
    /\ Scene[1][2].kind = "box"

\* C22: for the manifest that was loaded and every model string,
\* resolveModelPath returns undefined or a path that starts with "/models/".
C22_PathUnderModels ==
    roomViewer.models # None =>
        \A key \in ModelKeys :
            LET path == resolveModelPath(roomViewer.models[1], Some(key))
            IN  path = None \/ StartsWith(path[1], ModelsDir)

\* C29: scene objects are rendered only with a layout and a loaded manifest;
\* a component never has both a manifest and an error; a load whose effect
\* was cleaned up sets neither: the state of an unmounted component does not
\* change, and the state changes only when a load that was not cancelled
\* settles (or a new component mounts).
C29_ManifestLoading ==
    /\ [] /\ Scene # None => viewer.layout # None /\ roomViewer.models # None
          /\ ~(roomViewer.models # None /\ roomViewer.error # None)
          /\ ~roomViewer.mounted =>
                \A i \in DOMAIN roomViewer.loads : roomViewer.loads[i].cancelled
    /\ [][ /\ (~roomViewer.mounted /\ ~roomViewer'.mounted) =>
                /\ roomViewer'.models = roomViewer.models
                /\ roomViewer'.error = roomViewer.error
           /\ ( /\ roomViewer'.mounted = roomViewer.mounted
                /\ \/ roomViewer'.models # roomViewer.models
                   \/ roomViewer'.error # roomViewer.error )
              => \E i \in DOMAIN roomViewer.loads :
                    /\ ~roomViewer.loads[i].cancelled
                    /\ roomViewer'.loads = Without(roomViewer.loads, i) ]_vars

\* the component was unmounted before its load settled, the load has settled
\* since, and neither a manifest nor an error was set
C29_Witness ==
    /\ ~roomViewer.mounted
    /\ roomViewer.loads = << >>
    /\ roomViewer.models = None
    /\ roomViewer.error = None

\* C23: getTopKModels returns at most k entries; the entries that match the
\* query come first, a higher score (the number of query words found in the
\* id or a tag) before a lower one and, at equal scores, the path that is not
\* greater first; a matching entry is left out only when k entries are
\* returned, each with a higher score or the same score and a path that is
\* not greater.
Asked == retrieval[1]

WordsFound(entry) ==
    LET words == QueryWords(Asked.query)
        texts == {entry.id} \cup
                 {OrElse(entry.meta.tags, << >>)[i] :
                      i \in 1..Len(OrElse(entry.meta.tags, << >>))}
    IN  Cardinality({ i \in 1..Len(words) :
                        \E text \in texts : Includes(toLowerCase(text), words[i]) })

EntryWith(meta) == CHOOSE i \in 1..Len(Asked.models) : Asked.models[i].meta = meta

Found(meta) == WordsFound(Asked.models[EntryWith(meta)])

Returned(i) == \E j \in 1..Len(Asked.result) : Asked.result[j] = Asked.models[i].meta

NotAfter(a, b) ==
    \/ Found(a) > Found(b)
    \/ Found(a) = Found(b) /\ localeCompare(a.path, b.path) <= 0

C23_TopKRanked ==
    retrieval # None =>
        /\ Len(Asked.result) <= Asked.k
        /\ \A i, j \in 1..Len(Asked.result) :
              (i < j /\ Found(Asked.result[j]) > 0) =>
                  /\ Found(Asked.result[i]) > 0
                  /\ NotAfter(Asked.result[i], Asked.result[j])
        /\ \A i \in 1..Len(Asked.models) :
              (WordsFound(Asked.models[i]) > 0 /\ ~Returned(i)) =>
                  /\ Len(Asked.result) = Asked.k
                  /\ \A j \in 1..Len(Asked.result) :
                        NotAfter(Asked.result[j], Asked.models[i].meta)

\* "desk" with k = 1: the lamp, tagged "Desk", whose path comes before the
\* path of the desk, which is left out
C23_Witness ==
    /\ retrieval # None
    /\ Asked.models = Catalogue
    /\ Asked.k = 1
    /\ Len(QueryWords(Asked.query)) = 1
    /\ Len(Asked.result) = 1
    /\ Asked.result[1].ref = 2
    /\ WordsFound(Catalogue[1]) = 1

\* C30: getTopKModels returns min(k, number of entries) entries, none of them
\* twice; with fewer than k matches these are the ranked matches followed by
\* the entries that do not match, in the order of the manifest; a query
\* without words gives the first k entries of the manifest.
Matches == {i \in 1..Len(Asked.models) : WordsFound(Asked.models[i]) > 0}

Metas == [i \in 1..Len(Asked.models) |-> Asked.models[i].meta]

Expected == IF Asked.k < Len(Asked.models) THEN Asked.k ELSE Len(Asked.models)

C30_FilledToK ==
    retrieval # None =>
        /\ Len(Asked.result) = Expected
        /\ \A i, j \in 1..Len(Asked.result) :
              i # j => Asked.result[i] # Asked.result[j]
        /\ (QueryWords(Asked.query) # << >> /\ Cardinality(Matches) < Asked.k) =>
              LET m == Cardinality(Matches)
                  others == SelectSeq(Metas, LAMBDA meta : Found(meta) = 0)
              IN  /\ \A i \in 1..m : Found(Asked.result[i]) > 0
                  /\ SubSeq(Asked.result, m + 1, Len(Asked.result))
                       = SubSeq(others, 1, Expected - m)
        /\ QueryWords(Asked.query) = << >> =>
              Asked.result = SubSeq(Metas, 1, Expected)

\* "Desk  led" with k = 4: the lamp (two words), the sled and the desk (one
\* each, the sled's path first), and the bed, which does not match, fills up
C30_Witness ==
    /\ retrieval # None
    /\ Asked.models = Catalogue
    /\ Asked.k = 4
    /\ Cardinality(Matches) = 3
    /\ Len(Asked.result) = 4
    /\ Asked.result[4].ref = 3

====
